---- MODULE Spec2Model ----
(***************************************************************************)
(* Risk-gated execution core of kalshi-trading: the risk manager           *)
(* (engine/risk.py) and the live polling engine (engine/runner.py).        *)
(***************************************************************************)
EXTENDS Integers, Sequences, FiniteSets, TLC

(* ------------------------------ bounds -------------------------------- *)
MaxSize == 2
MaxPrice == 2
MaxPnl == 1
MaxTrades == 1
MaxDay == 1

(* ----------------------- configuration (RiskLimits) ------------------- *)
max_position_size == 2
max_daily_loss == 1
max_exposure_per_market == 3
max_total_exposure == 4

(* ------------------------------ domains ------------------------------- *)
NoPrice == -1
Tickers == {"T1", "T2"}
Kinds == {"buy", "sell", "hold"}
Sides == {"yes", "no"}
Timestamps == {1}

Signals ==
  [signal : Kinds, ticker : Tickers, side : Sides, size : 0..MaxSize,
   price : {NoPrice} \cup (0..MaxPrice), timestamp : Timestamps]

Reports == [ticker : Tickers, market_exposure : {1}, position : {0 - 1}]

is_actionable(sig) == sig.signal \in {"buy", "sell"} /\ sig.size > 0

Actionable == {sig \in Signals : sig.signal # "hold" /\ sig.size > 0 /\ sig.side = "yes"}

Unpriced == {sig \in Signals : sig.signal # "hold" /\ sig.side = "yes" /\ sig.price = NoPrice}

GateInputs == {sig \in Signals : sig.side = "yes" /\ sig.price \in {NoPrice, 0, 1}}

AllReports ==
  [ticker : Tickers, market_exposure : {0, MaxPrice * MaxSize},
   position : {0 - MaxSize, 0, MaxSize}]

GatedSignals == {sig \in Actionable : sig.size = MaxSize /\ sig.price \in {NoPrice, 1}}

DirectSignals ==
  {sig \in Signals :
     /\ sig.signal # "hold" /\ sig.ticker = "T1" /\ sig.side = "no"
     /\ sig.size = MaxSize /\ sig.price = NoPrice}

VARIABLES
  state,           \* RiskManager.state (RiskState)
  today,           \* the calendar date read by date.today()
  last,            \* name of the last operation that acted
  dry_run,         \* TradingEngine.dry_run
  market_cache,    \* TradingEngine._market_cache
  running,         \* TradingEngine._running
  shutdown_event,  \* TradingEngine._shutdown_event
  pc,              \* where run() stands
  games,           \* games of the cycle still to process, current one first
  idx,             \* index of the strategy evaluated next in _process_game
  position,        \* local position of _process_game: <<>> is None
  pending,         \* order awaiting create_order with its signal: <<>> is none
  orders,          \* orders for which create_order returned, oldest first
  subject,         \* the strategy object whose method is called
  game_state,      \* the GameState argument of the call
  market_state,    \* the MarketState argument of the call
  held,            \* the position argument of the call: <<>> is None
  called,          \* the method that was called, "none" before the call
  returned,        \* what evaluate returned: <<>> is None
  time_valid,      \* what is_time_valid returned
  bt_strategies,   \* Backtester.strategies
  snapshots,       \* the rows _get_game_snapshots returned, ordered by timestamp
  bt,              \* where Backtester.run() stands
  events,          \* the events of _group_by_event still to process, current one first
  snap,            \* index of the current snapshot in the current event
  strat,           \* index of the strategy evaluated next on the current snapshot
  signaled,        \* _process_event's set of strategy keys
  result,          \* the BacktestResult of the run
  evaluations,     \* the calls of strategy.evaluate made by the run, oldest first
  wall_clock,      \* the wall clock read while the run is made
  previous,        \* the result of the run made before this one: <<>> is none
  scoreboards,     \* what the score feed answers for each sport
  sport_idx,       \* index of the sport get_all_live_games queries next
  collected,       \* the result dict of get_all_live_games
  quoted_snapshot, \* the snapshot handed to _create_simulated_market: <<>> is none
  simulated,       \* the market it returned: <<>> is none
  traded           \* the signal handed to _execute_trade: <<>> is none

engine == <<dry_run, market_cache, running, shutdown_event, pc, games, idx,
            position, pending, orders>>

backtest == <<bt_strategies, snapshots, bt, events, snap, strat, signaled, result, evaluations,
              wall_clock, previous>>

feed == <<scoreboards, sport_idx, collected>>

quote == <<quoted_snapshot, simulated>>

offline == <<subject, game_state, market_state, held, called, returned, time_valid, backtest,
             feed, quote, traded>>

vars == <<state, today, last, engine, offline>>

(* ------------------------------ helpers ------------------------------- *)
Abs(x) == IF x < 0 THEN 0 - x ELSE x

Max(a, b) == IF a >= b THEN a ELSE b

Get(d, k) == IF k \in DOMAIN d THEN d[k] ELSE 0

Put(d, k, v) == [x \in (DOMAIN d) \cup {k} |-> IF x = k THEN v ELSE d[x]]

RECURSIVE SumOver(_, _)
SumOver(d, ks) ==
  IF ks = {} THEN 0
  ELSE LET k == CHOOSE x \in ks : TRUE IN d[k] + SumOver(d, ks \ {k})

Truthy(p) == p # NoPrice /\ p # 0

PriceOrZero(p) == IF Truthy(p) THEN p ELSE 0

(* --------------------------- risk manager ----------------------------- *)
RiskState ==
  [positions |-> <<>>, exposure |-> <<>>, daily_pnl |-> 0, trade_date |-> 0, trades |-> <<>>]

reset_daily_keeps_trades(s, now) ==
  IF s.trade_date # now
  THEN [s EXCEPT !.daily_pnl = 0, !.trade_date = now]
  ELSE s

reset_daily(s, now) ==
  IF s.trade_date # now
  THEN [s EXCEPT !.daily_pnl = 0, !.trade_date = now, !.trades = <<>>]
  ELSE s

total_exposure(s) == SumOver(s.exposure, DOMAIN s.exposure)

can_trade_strict_stop(s, now, sig) ==
  LET st == reset_daily(s, now)
      trade_exposure == sig.size * sig.price
      ok ==
        /\ ~(st.daily_pnl < 0 - max_daily_loss)
        /\ Abs(Get(st.positions, sig.ticker) + sig.size) <= max_position_size
        /\ Truthy(sig.price) =>
             /\ Get(st.exposure, sig.ticker) + trade_exposure <= max_exposure_per_market
             /\ total_exposure(st) + trade_exposure <= max_total_exposure
  IN [state |-> st, ret |-> ok]

can_trade_no_total(s, now, sig) ==
  LET st == reset_daily(s, now)
      trade_exposure == sig.size * sig.price
      ok ==
        /\ ~(st.daily_pnl <= 0 - max_daily_loss)
        /\ Abs(Get(st.positions, sig.ticker) + sig.size) <= max_position_size
        /\ Truthy(sig.price) =>
             Get(st.exposure, sig.ticker) + trade_exposure <= max_exposure_per_market
  IN [state |-> st, ret |-> ok]

can_trade_reserves(s, now, sig) ==
  LET st == reset_daily(s, now)
      ok ==
        /\ ~(st.daily_pnl <= 0 - max_daily_loss)
        /\ Abs(Get(st.positions, sig.ticker) + sig.size) <= max_position_size
        /\ Truthy(sig.price) =>
             /\ Get(st.exposure, sig.ticker) + sig.size * sig.price <= max_exposure_per_market
             /\ total_exposure(st) + sig.size * sig.price <= max_total_exposure
  IN [state |-> IF ok /\ Truthy(sig.price)
                THEN [st EXCEPT !.exposure =
                        Put(st.exposure, sig.ticker,
                            Get(st.exposure, sig.ticker) + sig.size * sig.price)]
                ELSE st,
      ret |-> ok]

can_trade(s, now, sig) ==
  LET st == reset_daily(s, now)
      new_position == Get(st.positions, sig.ticker) + sig.size
      trade_exposure == sig.size * sig.price
      ok ==
        IF st.daily_pnl <= 0 - max_daily_loss THEN FALSE
        ELSE IF Abs(new_position) > max_position_size THEN FALSE
        ELSE IF Truthy(sig.price)
               /\ Get(st.exposure, sig.ticker) + trade_exposure > max_exposure_per_market
          THEN FALSE
        ELSE IF Truthy(sig.price)
               /\ total_exposure(st) + trade_exposure > max_total_exposure
          THEN FALSE
        ELSE TRUE
  IN [state |-> st, ret |-> ok]

max_allowed_size_keeps_one(s, ticker) ==
  Max(0, max_position_size - Abs(Get(s.positions, ticker)) - 1)

max_allowed_size_signed(s, ticker) ==
  Max(0, max_position_size - Get(s.positions, ticker))

max_allowed_size(s, ticker) ==
  Max(0, max_position_size - Abs(Get(s.positions, ticker)))

adjust_signal_unclamped(s, sig) == sig

adjust_signal(s, sig) ==
  LET max_size == max_allowed_size(s, sig.ticker)
  IN IF sig.size <= max_size THEN sig ELSE [sig EXCEPT !.size = max_size]

record_trade_omits_pnl(s, now, sig, fill_price, realized_pnl) ==
  LET st == reset_daily(s, now)
      current == Get(st.positions, sig.ticker)
      newpos == IF sig.signal = "buy" THEN current + sig.size ELSE current - sig.size
      newexp == Get(st.exposure, sig.ticker) + sig.size * fill_price
      rec == [timestamp |-> sig.timestamp, ticker |-> sig.ticker, side |-> sig.side,
              action |-> sig.signal, size |-> sig.size, price |-> fill_price, pnl |-> 0]
  IN [st EXCEPT !.positions = Put(st.positions, sig.ticker, newpos),
                !.exposure = Put(st.exposure, sig.ticker, newexp),
                !.daily_pnl = st.daily_pnl + realized_pnl,
                !.trades = Append(st.trades, rec)]

record_trade_unsigned(s, now, sig, fill_price, realized_pnl) ==
  LET st == reset_daily(s, now)
      rec == [timestamp |-> sig.timestamp, ticker |-> sig.ticker, side |-> sig.side,
              action |-> sig.signal, size |-> sig.size, price |-> fill_price,
              pnl |-> realized_pnl]
  IN [st EXCEPT !.positions = Put(st.positions, sig.ticker,
                                  Get(st.positions, sig.ticker) + sig.size),
                !.exposure = Put(st.exposure, sig.ticker,
                                 Get(st.exposure, sig.ticker) + sig.size * fill_price),
                !.daily_pnl = st.daily_pnl + realized_pnl,
                !.trades = Append(st.trades, rec)]

record_trade(s, now, sig, fill_price, realized_pnl) ==
  LET st == reset_daily(s, now)
      current == Get(st.positions, sig.ticker)
      newpos == IF sig.signal = "buy" THEN current + sig.size ELSE current - sig.size
      newexp == Get(st.exposure, sig.ticker) + sig.size * fill_price
      rec == [timestamp |-> sig.timestamp, ticker |-> sig.ticker, side |-> sig.side,
              action |-> sig.signal, size |-> sig.size, price |-> fill_price,
              pnl |-> realized_pnl]
  IN [st EXCEPT !.positions = Put(st.positions, sig.ticker, newpos),
                !.exposure = Put(st.exposure, sig.ticker, newexp),
                !.daily_pnl = st.daily_pnl + realized_pnl,
                !.trades = Append(st.trades, rec)]

update_position_accumulates(s, pos) ==
  [s EXCEPT !.positions = Put(s.positions, pos.ticker,
                              Get(s.positions, pos.ticker) + pos.position),
            !.exposure = Put(s.exposure, pos.ticker,
                             Get(s.exposure, pos.ticker) + pos.market_exposure)]

update_position(s, pos) ==
  [s EXCEPT !.positions = Put(s.positions, pos.ticker, pos.position),
            !.exposure = Put(s.exposure, pos.ticker, pos.market_exposure)]

daily_loss_remaining(s, now) ==
  LET st == reset_daily(s, now)
  IN [state |-> st, ret |-> max_daily_loss + st.daily_pnl]

is_daily_limit_reached_strict(s, now) ==
  LET r == daily_loss_remaining(s, now)
  IN [state |-> r.state, ret |-> r.ret < 0]

is_daily_limit_reached(s, now) ==
  LET r == daily_loss_remaining(s, now)
  IN [state |-> r.state, ret |-> r.ret <= 0]

(* ------------------- risk manager driven through its API --------------- *)
Idle ==
  /\ running = FALSE
  /\ shutdown_event = FALSE
  /\ pc = "init"
  /\ games = <<>>
  /\ idx = 1
  /\ position = <<>>
  /\ pending = <<>>
  /\ orders = <<>>

BacktestResult_one_trade ==
  [total_signals |-> 1, total_trades |-> 1, winning_trades |-> 0, losing_trades |-> 0,
   total_pnl |-> 0, trades |-> <<>>, strategies |-> <<>>]

BacktestResult ==
  [total_signals |-> 0, total_trades |-> 0, winning_trades |-> 0, losing_trades |-> 0,
   total_pnl |-> 0, trades |-> <<>>, strategies |-> <<>>]

NoRun ==
  /\ bt_strategies = <<>>
  /\ snapshots = <<>>
  /\ bt = "none"
  /\ events = <<>>
  /\ snap = 1
  /\ strat = 1
  /\ signaled = {}
  /\ result = BacktestResult
  /\ evaluations = <<>>
  /\ wall_clock = 0
  /\ previous = <<>>

NoTrade == traded = <<>>

NoQuote ==
  /\ quoted_snapshot = <<>>
  /\ simulated = <<>>

NoFeed ==
  /\ scoreboards = <<>>
  /\ sport_idx = 0
  /\ collected = <<>>

NoCall ==
  /\ subject = <<>>
  /\ game_state = <<>>
  /\ market_state = <<>>
  /\ held = <<>>
  /\ called = "none"
  /\ returned = <<>>
  /\ time_valid = FALSE

Init ==
  /\ state = RiskState
  /\ today = 0
  /\ last = "init"
  /\ dry_run = TRUE
  /\ market_cache = <<>>
  /\ Idle
  /\ NoFeed
  /\ NoQuote
  /\ NoTrade
  /\ NoCall
  /\ NoRun

NewDay ==
  /\ today < MaxDay
  /\ today' = today + 1
  /\ UNCHANGED <<last, state, engine, offline>>

ResetDaily ==
  /\ state' = reset_daily(state, today)
  /\ UNCHANGED <<last, today, engine, offline>>

CanTrade(sig) ==
  /\ state' = can_trade(state, today, sig).state
  /\ UNCHANGED <<last, today, engine, offline>>

DailyLossRemaining ==
  /\ state' = daily_loss_remaining(state, today).state
  /\ UNCHANGED <<last, today, engine, offline>>

RecordTrade(sig, fill_price, realized_pnl) ==
  /\ Len(reset_daily(state, today).trades) < MaxTrades
  /\ state' = record_trade(state, today, sig, fill_price, realized_pnl)
  /\ last' = "record_trade"
  /\ UNCHANGED <<today, engine, offline>>

GatedTrade(sig, fill_price, realized_pnl) ==
  LET gate == can_trade(state, today, sig)
      adjusted == adjust_signal(gate.state, sig)
  IN /\ gate.ret
     /\ Len(gate.state.trades) < MaxTrades
     /\ state' = record_trade(gate.state, today, adjusted, fill_price, realized_pnl)
     /\ last' = "gated_trade"
     /\ UNCHANGED <<today, engine, offline>>

UpdatePosition(pos) ==
  /\ state' = update_position(state, pos)
  /\ UNCHANGED <<last, today, engine, offline>>

Next ==
  \/ NewDay
  \/ ResetDaily
  \/ DailyLossRemaining
  \/ \E sig \in DirectSignals : CanTrade(sig)
  \/ \E sig \in DirectSignals : RecordTrade(sig, MaxPrice, 0 - MaxPnl)
  \/ \E sig \in GatedSignals : GatedTrade(sig, PriceOrZero(sig.price), 0)
  \/ \E pos \in Reports : UpdatePosition(pos)

Spec == Init /\ [][Next]_vars

(* ----------------------------- live engine ---------------------------- *)
MaxOrders == MaxTrades
MinOrderPrice == 1
MaxOrderPrice == 99

Games == {[event_id |-> "e1", sport |-> "nfl"], [event_id |-> "e2", sport |-> "nba"]}

FetchResults ==
  {<<>>, <<[event_id |-> "e1", sport |-> "nfl"], [event_id |-> "e2", sport |-> "nba"]>>}

cache_key(game) == <<game.sport, game.event_id>>

Caches == {<<>>, [k \in {<<"nba", "e2">>} |-> [ticker |-> "T2"]]}

CfgGet(config, key, default) == IF key \in DOMAIN config THEN config[key] ELSE default

strategies ==
  <<[config |-> [targets |-> <<[sport |-> "nfl"]>>]],
    [config |-> [targets |-> <<[sport |-> "nfl"], [sport |-> "nba"]>>]]>>

StrategySignals ==
  {sig \in Signals :
     /\ sig.side = "yes"
     /\ \/ sig.signal = "hold" /\ sig.size = 0 /\ sig.price = NoPrice
        \/ sig.signal = "buy" /\ sig.size = 1 /\ sig.price = 0
        \/ sig.signal # "hold" /\ sig.size \in {1, MaxSize} /\ sig.price \in {NoPrice, MaxPrice}}

EngineReports ==
  [ticker : Tickers, market_exposure : {1}, position : {0 - 1, 0 - max_position_size}]

StrategyResults(ticker) ==
  {<<>>} \cup {<<sig>> : sig \in {x \in StrategySignals : x.ticker = ticker}}

get_market_for_game_by_event(cache, game) == <<[ticker |-> "T2"]>>

get_market_for_game_discovers(cache, game) ==
  IF cache_key(game) \in DOMAIN cache THEN <<cache[cache_key(game)]>> ELSE <<[ticker |-> "T1"]>>

get_market_for_game(cache, game) ==
  IF cache_key(game) \in DOMAIN cache THEN <<cache[cache_key(game)]>> ELSE <<>>

is_strategy_applicable_first_target(strategy, game) ==
  LET targets == CfgGet(strategy.config, "targets", <<>>)
  IN \/ targets = <<>>
     \/ CfgGet(targets[1], "sport", "") = game.sport

is_strategy_applicable(strategy, game) ==
  LET targets == CfgGet(strategy.config, "targets", <<>>)
  IN \/ targets = <<>>
     \/ \E i \in 1..Len(targets) : CfgGet(targets[i], "sport", "") = game.sport

stop_event_only == [running |-> TRUE, shutdown_event |-> TRUE]

stop == [running |-> FALSE, shutdown_event |-> TRUE]

handle_signal_ungated(s, now, sig, dry) ==
  LET gate == can_trade(s, now, sig)
      adjusted == adjust_signal(gate.state, sig)
  IN [state |-> gate.state, adjusted |-> adjusted,
      outcome |-> IF adjusted.size = 0 THEN "zero"
                  ELSE IF dry THEN "dry_run" ELSE "execute"]

handle_signal_always_live(s, now, sig, dry) ==
  LET gate == can_trade(s, now, sig)
      adjusted == adjust_signal(gate.state, sig)
  IN [state |-> gate.state, adjusted |-> adjusted,
      outcome |-> IF ~gate.ret THEN "blocked"
                  ELSE IF adjusted.size = 0 THEN "zero" ELSE "execute"]

handle_signal(s, now, sig, dry) ==
  LET gate == can_trade(s, now, sig)
      adjusted == adjust_signal(gate.state, sig)
  IN [state |-> gate.state, adjusted |-> adjusted,
      outcome |-> IF ~gate.ret THEN "blocked"
                  ELSE IF adjusted.size = 0 THEN "zero"
                  ELSE IF dry THEN "dry_run" ELSE "execute"]

PriceValid_no_ceiling(p) == p = NoPrice \/ p >= MinOrderPrice

PriceValid(p) == p = NoPrice \/ (p >= MinOrderPrice /\ p <= MaxOrderPrice)

CreateOrderRequest(sig) ==
  LET order == [ticker |-> sig.ticker, side |-> sig.side, action |-> sig.signal,
                type |-> IF Truthy(sig.price) THEN "limit" ELSE "market",
                count |-> sig.size,
                yes_price |-> IF sig.side = "yes" THEN sig.price ELSE NoPrice,
                no_price |-> IF sig.side = "no" THEN sig.price ELSE NoPrice]
  IN [ok |-> /\ sig.side \in {"yes", "no"}
             /\ sig.signal \in {"buy", "sell"}
             /\ sig.size > 0
             /\ PriceValid(order.yes_price)
             /\ PriceValid(order.no_price),
      order |-> order]

execute_trade_realizes_cost(s, now, sig, accepted) ==
  IF accepted THEN record_trade(s, now, sig, PriceOrZero(sig.price), 0 - sig.size) ELSE s

execute_trade_records_always(s, now, sig, accepted) ==
  record_trade(s, now, sig, PriceOrZero(sig.price), 0)

execute_trade(s, now, sig, accepted) ==
  IF accepted THEN record_trade(s, now, sig, PriceOrZero(sig.price), 0) ELSE s

InitE ==
  /\ state = RiskState
  /\ today = 0
  /\ last = "init"
  /\ dry_run \in BOOLEAN
  /\ market_cache \in Caches
  /\ Idle
  /\ NoFeed
  /\ NoQuote
  /\ NoTrade
  /\ NoCall
  /\ NoRun

Tick ==
  /\ today < MaxDay
  /\ today' = today + 1
  /\ UNCHANGED <<state, last, engine, offline>>

Start ==
  /\ pc = "init"
  /\ running' = TRUE
  /\ shutdown_event' = FALSE
  /\ pc' = "loop"
  /\ last' = "start"
  /\ UNCHANGED <<state, today, dry_run, market_cache, offline, games, idx, position, pending, orders>>

Stop ==
  /\ pc \in {"fetch", "position", "order", "wait"}
  /\ ~shutdown_event
  /\ running' = stop.running
  /\ shutdown_event' = stop.shutdown_event
  /\ last' = "stop"
  /\ UNCHANGED <<state, today, dry_run, market_cache, offline, pc, games, idx, position, pending, orders>>

LoopCycle ==
  /\ pc = "loop"
  /\ running
  /\ pc' = "cycle"
  /\ last' = "loop_cycle"
  /\ UNCHANGED <<state, today, dry_run, market_cache, offline, running, shutdown_event, games, idx,
                 position, pending, orders>>

LoopExit ==
  /\ pc = "loop"
  /\ ~running
  /\ running' = stop.running
  /\ shutdown_event' = stop.shutdown_event
  /\ pc' = "done"
  /\ last' = "loop_exit"
  /\ UNCHANGED <<state, today, dry_run, market_cache, offline, games, idx, position, pending, orders>>

CycleSkip ==
  /\ pc = "cycle"
  /\ is_daily_limit_reached(reset_daily(state, today), today).ret
  /\ state' = is_daily_limit_reached(reset_daily(state, today), today).state
  /\ pc' = "wait"
  /\ last' = "cycle_skip"
  /\ UNCHANGED <<today, dry_run, market_cache, offline, running, shutdown_event, games, idx,
                 position, pending, orders>>

CycleFetch ==
  /\ pc = "cycle"
  /\ ~is_daily_limit_reached(reset_daily(state, today), today).ret
  /\ state' = is_daily_limit_reached(reset_daily(state, today), today).state
  /\ pc' = "fetch"
  /\ last' = IF state.trade_date # today /\ state.daily_pnl <= 0 - max_daily_loss
             THEN "cycle_fetch_new_day" ELSE "cycle_fetch"
  /\ UNCHANGED <<today, dry_run, market_cache, offline, running, shutdown_event, games, idx,
                 position, pending, orders>>

FetchReturns(all_games) ==
  /\ pc = "fetch"
  /\ games' = all_games
  /\ pc' = IF all_games = <<>> THEN "wait" ELSE "game"
  /\ last' = "fetch_returns"
  /\ UNCHANGED <<state, today, dry_run, market_cache, offline, running, shutdown_event, idx,
                 position, pending, orders>>

FetchRaises ==
  /\ pc = "fetch"
  /\ pc' = "wait"
  /\ last' = "fetch_raises"
  /\ UNCHANGED <<state, today, dry_run, market_cache, offline, running, shutdown_event, games, idx,
                 position, pending, orders>>

CycleEnd ==
  /\ pc = "game"
  /\ games = <<>>
  /\ pc' = "wait"
  /\ last' = "cycle_end"
  /\ UNCHANGED <<state, today, dry_run, market_cache, offline, running, shutdown_event, games, idx,
                 position, pending, orders>>

GameNoMarket ==
  /\ pc = "game"
  /\ games # <<>>
  /\ get_market_for_game(market_cache, Head(games)) = <<>>
  /\ games' = Tail(games)
  /\ last' = "game_no_market"
  /\ UNCHANGED <<state, today, dry_run, market_cache, offline, running, shutdown_event, pc, idx,
                 position, pending, orders>>

GameMarket ==
  /\ pc = "game"
  /\ games # <<>>
  /\ get_market_for_game(market_cache, Head(games)) # <<>>
  /\ pc' = "position"
  /\ last' = "game_market"
  /\ UNCHANGED <<state, today, dry_run, market_cache, offline, running, shutdown_event, games, idx,
                 position, pending, orders>>

Market == get_market_for_game(market_cache, Head(games))[1]

\* the outcome of kalshi.get_positions: an exception, or the reported positions
PositionReplies ==
  {[ok |-> FALSE, market_positions |-> <<>>]}
  \cup {[ok |-> TRUE, market_positions |-> <<>>]}
  \cup {[ok |-> TRUE, market_positions |-> <<pos>>] : pos \in EngineReports}
  \cup {[ok |-> TRUE, market_positions |-> <<other, pos>>] :
          other \in {r \in EngineReports : r.ticker = "T1" /\ r.position = 0 - 1},
          pos \in {r \in EngineReports : r.ticker = "T2"}}

RECURSIVE get_position_loop(_, _, _, _)
get_position_loop(s, market_positions, i, ticker) ==
  IF i > Len(market_positions) THEN [state |-> s, ret |-> <<>>]
  ELSE IF market_positions[i].ticker = ticker
       THEN [state |-> update_position(s, market_positions[i]), ret |-> <<market_positions[i]>>]
       ELSE get_position_loop(s, market_positions, i + 1, ticker)

get_position_without_update(s, reply, ticker) ==
  IF ~reply.ok THEN [state |-> s, ret |-> <<>>]
  ELSE [state |-> s, ret |-> get_position_loop(s, reply.market_positions, 1, ticker).ret]

get_position(s, reply, ticker) ==
  IF ~reply.ok THEN [state |-> s, ret |-> <<>>]
  ELSE get_position_loop(s, reply.market_positions, 1, ticker)

PositionFetched(reply, label) ==
  /\ pc = "position"
  /\ state' = get_position(state, reply, Market.ticker).state
  /\ position' = get_position(state, reply, Market.ticker).ret
  /\ idx' = 1
  /\ pc' = "strategy"
  /\ last' = label
  /\ UNCHANGED <<today, dry_run, market_cache, offline, running, shutdown_event, games, pending, orders>>

PositionFound(reply) ==
  /\ pc = "position"
  /\ reply.ok
  /\ get_position(state, reply, Market.ticker).ret # <<>>
  /\ PositionFetched(reply, "position_found")

PositionNone(reply) ==
  /\ pc = "position"
  /\ reply.ok
  /\ get_position(state, reply, Market.ticker).ret = <<>>
  /\ PositionFetched(reply, "position_none")

PositionRaises(reply) ==
  /\ pc = "position"
  /\ ~reply.ok
  /\ PositionFetched(reply, "position_raises")

GameDone ==
  /\ pc = "strategy"
  /\ idx > Len(strategies)
  /\ games' = Tail(games)
  /\ pc' = "game"
  /\ last' = "game_done"
  /\ UNCHANGED <<state, today, dry_run, market_cache, offline, running, shutdown_event, idx,
                 position, pending, orders>>

Evaluating ==
  /\ pc = "strategy"
  /\ idx <= Len(strategies)

NextStrategy(label) ==
  /\ idx' = idx + 1
  /\ last' = label
  /\ UNCHANGED <<today, dry_run, market_cache, offline, running, shutdown_event, pc, games,
                 position, pending, orders>>

StrategySkip ==
  /\ Evaluating
  /\ ~is_strategy_applicable(strategies[idx], Head(games))
  /\ NextStrategy("strategy_skip")
  /\ UNCHANGED state

StrategyRaises_escapes ==
  /\ Evaluating
  /\ is_strategy_applicable(strategies[idx], Head(games))
  /\ running' = stop.running
  /\ shutdown_event' = stop.shutdown_event
  /\ pc' = "done"
  /\ last' = "strategy_raises"
  /\ UNCHANGED <<state, today, dry_run, market_cache, offline, games, idx, position, pending, orders>>

StrategyRaises ==
  /\ Evaluating
  /\ is_strategy_applicable(strategies[idx], Head(games))
  /\ pc' = "wait"
  /\ last' = "strategy_raises"
  /\ UNCHANGED <<state, today, dry_run, market_cache, offline, running, shutdown_event, games, idx,
                 position, pending, orders>>

Applicable ==
  /\ Evaluating
  /\ is_strategy_applicable(strategies[idx], Head(games))

SignalIgnored ==
  /\ Applicable
  /\ \E signal \in StrategyResults(Market.ticker) :
        IF signal = <<>> THEN TRUE ELSE ~is_actionable(signal[1])
  /\ NextStrategy("signal_ignored")
  /\ UNCHANGED state

Handled(signal, outcome) ==
  /\ signal # <<>>
  /\ is_actionable(signal[1])
  /\ handle_signal(state, today, signal[1], dry_run).outcome = outcome
  /\ state' = handle_signal(state, today, signal[1], dry_run).state

SignalBlocked ==
  /\ Applicable
  /\ \E signal \in StrategyResults(Market.ticker) : Handled(signal, "blocked")
  /\ NextStrategy("signal_blocked")

SignalZero ==
  /\ Applicable
  /\ \E signal \in StrategyResults(Market.ticker) : Handled(signal, "zero")
  /\ NextStrategy("signal_zero")

DryRunLog ==
  /\ Applicable
  /\ \E signal \in StrategyResults(Market.ticker) : Handled(signal, "dry_run")
  /\ NextStrategy("dry_run_log")

OrderInvalid ==
  /\ Applicable
  /\ \E signal \in StrategyResults(Market.ticker) :
        /\ Handled(signal, "execute")
        /\ ~CreateOrderRequest(handle_signal(state, today, signal[1], dry_run).adjusted).ok
  /\ NextStrategy("order_invalid")

OrderSubmit ==
  /\ Applicable
  /\ \E signal \in StrategyResults(Market.ticker) :
        /\ Handled(signal, "execute")
        /\ CreateOrderRequest(handle_signal(state, today, signal[1], dry_run).adjusted).ok
        /\ pending' =
             <<[signal |-> signal[1],
                adjusted |-> handle_signal(state, today, signal[1], dry_run).adjusted,
                order |-> CreateOrderRequest(
                            handle_signal(state, today, signal[1], dry_run).adjusted).order]>>
  /\ pc' = "order"
  /\ last' = "order_submit"
  /\ UNCHANGED <<today, dry_run, market_cache, offline, running, shutdown_event, games, idx,
                 position, orders>>

OrderAccepted ==
  /\ pc = "order"
  /\ Len(orders) < MaxOrders
  /\ Len(reset_daily(state, today).trades) < MaxTrades
  /\ orders' = Append(orders, pending[1].order)
  /\ state' = execute_trade(state, today, pending[1].adjusted, TRUE)
  /\ pending' = <<>>
  /\ idx' = idx + 1
  /\ pc' = "strategy"
  /\ last' = "order_accepted"
  /\ UNCHANGED <<today, dry_run, market_cache, offline, running, shutdown_event, games, position>>

OrderRaises ==
  /\ pc = "order"
  /\ state' = execute_trade(state, today, pending[1].adjusted, FALSE)
  /\ pending' = <<>>
  /\ idx' = idx + 1
  /\ pc' = "strategy"
  /\ last' = "order_raises"
  /\ UNCHANGED <<today, dry_run, market_cache, offline, running, shutdown_event, games, position, orders>>

WaitShutdown ==
  /\ pc = "wait"
  /\ shutdown_event
  /\ pc' = "loop"
  /\ last' = "wait_shutdown"
  /\ UNCHANGED <<state, today, dry_run, market_cache, offline, running, shutdown_event, games, idx,
                 position, pending, orders>>

WaitTimeout ==
  /\ pc = "wait"
  /\ ~shutdown_event
  /\ pc' = "loop"
  /\ last' = "wait_timeout"
  /\ UNCHANGED <<state, today, dry_run, market_cache, offline, running, shutdown_event, games, idx,
                 position, pending, orders>>

EngineStep ==
  \/ Start
  \/ LoopCycle
  \/ LoopExit
  \/ CycleSkip
  \/ CycleFetch
  \/ \E all_games \in FetchResults : FetchReturns(all_games)
  \/ FetchRaises
  \/ CycleEnd
  \/ GameNoMarket
  \/ GameMarket
  \/ \E reply \in PositionReplies : PositionFound(reply)
  \/ \E reply \in PositionReplies : PositionNone(reply)
  \/ \E reply \in PositionReplies : PositionRaises(reply)
  \/ GameDone
  \/ StrategySkip
  \/ StrategyRaises
  \/ SignalIgnored
  \/ SignalBlocked
  \/ SignalZero
  \/ DryRunLog
  \/ OrderInvalid
  \/ OrderSubmit
  \/ OrderAccepted
  \/ OrderRaises
  \/ WaitShutdown
  \/ WaitTimeout

ExternalSignals == {sig \in DirectSignals : sig.signal = "sell"}

ExternalRecordTrade(sig, realized_pnl) ==
  /\ pc \in {"fetch", "position", "order", "wait"}
  /\ Len(reset_daily(state, today).trades) < MaxTrades
  /\ state' = record_trade(state, today, sig, 0, realized_pnl)
  /\ last' = "external_record_trade"
  /\ UNCHANGED <<today, engine, offline>>

NextE ==
  \/ EngineStep
  \/ Stop
  \/ Tick
  \/ \E sig \in ExternalSignals : ExternalRecordTrade(sig, 0 - MaxPnl)

SpecEngine == InitE /\ [][NextE]_vars

\* a run of the engine within one calendar day
NextSameDay ==
  \/ EngineStep
  \/ Stop
  \/ \E sig \in ExternalSignals : ExternalRecordTrade(sig, 0 - MaxPnl)

SpecEngineFair == InitE /\ [][NextSameDay]_vars /\ WF_vars(EngineStep)

(* ----------------------------- strategies ----------------------------- *)
MaxScore == 2
MaxPeriod == 2
MaxClock == 1

DefaultSize == 10
DefaultOffset == 2

GameStatuses == {"pre", "in", "post"}
MarketStatuses == {"open", "closed", "settled"}

\* the GameState fields the strategies read
GameStates ==
  [sport : {"nfl"}, home_score : 0..MaxScore, away_score : 0..MaxScore, period : {1},
   clock_seconds : {0}, status : GameStatuses]
  \cup [sport : {"nfl"}, home_score : {MaxScore}, away_score : {0}, period : 1..MaxPeriod,
        clock_seconds : 0..MaxClock, status : GameStatuses]

margin(game) == game.home_score - game.away_score

is_live_unless_pre(game) == game.status # "pre"

is_live(game) == game.status = "in"

\* the MarketState fields the strategies read
MarketStates ==
  [ticker : {"T1"}, status : {"open"}, yes_ask : {55, 95}, no_ask : {47}]
  \cup [ticker : {"T1"}, status : {"closed", "settled"}, yes_ask : {55}, no_ask : {47}]

is_open(market) == market.status = "open"

HeldPositions == {<<>>, <<[ticker |-> "T1", market_exposure |-> 1, position |-> 1]>>}

\* dict.get(key, default)
threshold_met_strict(abs_margin, min_margin) == abs_margin > min_margin

threshold_met(abs_margin, min_margin) == ~(abs_margin < min_margin)

ScoreMarginStrategy_evaluate(self, game, market, pos) ==
  IF ~is_live(game) THEN <<>>
  ELSE IF ~is_open(market) THEN <<>>
  ELSE LET min_margin == self.config.min_margin
           direction == CfgGet(self.config, "direction", "leading")
           side == CfgGet(self.config, "side", "yes")
           size == CfgGet(self.config, "size", DefaultSize)
           limit_offset == CfgGet(self.config, "limit_offset", DefaultOffset)
           abs_margin == Abs(margin(game))
           home_leading == margin(game) > 0
           price == IF side = "yes" THEN market.yes_ask + limit_offset
                    ELSE market.no_ask + limit_offset
       IN IF ~threshold_met(abs_margin, min_margin) THEN <<>>
          ELSE IF direction = "leading" /\ ~home_leading THEN <<>>
          ELSE IF direction # "leading" /\ home_leading THEN <<>>
          ELSE <<[signal |-> "buy", ticker |-> market.ticker, side |-> side,
                  size |-> size, price |-> price]>>

GameTimeStrategy_evaluate(self, game, market, pos) == <<>>

is_time_valid_any_clock(self, game) ==
  IF ~is_live(game) THEN FALSE
  ELSE IF game.period < self.config.min_period THEN FALSE
  ELSE TRUE

is_time_valid(self, game) ==
  IF ~is_live(game) THEN FALSE
  ELSE IF game.period < self.config.min_period THEN FALSE
  ELSE IF "max_clock" \in DOMAIN self.config /\ game.clock_seconds > self.config.max_clock
       THEN FALSE
  ELSE TRUE

\* CompositeStrategy.operator
operator(self) == CfgGet(self.config, "operator", "and")

filter_vetoes_always(self) == TRUE

\* a failing GameTimeStrategy child ends the evaluation
filter_vetoes(self) == operator(self) = "and"

last_signal(signals) == IF signals # <<>> THEN <<signals[Len(signals)]>> ELSE <<>>

\* the return after the loop over the children
first_signal(signals) == IF signals # <<>> THEN <<signals[1]>> ELSE <<>>

RECURSIVE evaluate(_, _, _, _)
RECURSIVE CompositeStrategy_loop(_, _, _, _, _, _)

\* the loop over self.strategies, rest being the children still to visit
CompositeStrategy_loop(self, rest, signals, game, market, pos) ==
  IF rest = <<>> THEN first_signal(signals)
  ELSE LET child == Head(rest)
       IN IF child.type = "time"
          THEN IF ~is_time_valid(child, game) /\ filter_vetoes(self) THEN <<>>
               ELSE CompositeStrategy_loop(self, Tail(rest), signals, game, market, pos)
          ELSE LET sig == evaluate(child, game, market, pos)
               IN IF sig # <<>>
                  THEN CompositeStrategy_loop(self, Tail(rest), Append(signals, sig[1]),
                                              game, market, pos)
                  ELSE IF operator(self) = "and" THEN <<>>
                  ELSE CompositeStrategy_loop(self, Tail(rest), signals, game, market, pos)

CompositeStrategy_evaluate(self, game, market, pos) ==
  IF self.strategies = <<>> THEN <<>>
  ELSE CompositeStrategy_loop(self, self.strategies, <<>>, game, market, pos)

\* TradingStrategy.evaluate, dispatched on the class of self
evaluate(self, game, market, pos) ==
  CASE self.type = "margin" -> ScoreMarginStrategy_evaluate(self, game, market, pos)
    [] self.type = "time" -> GameTimeStrategy_evaluate(self, game, market, pos)
    [] self.type = "composite" -> CompositeStrategy_evaluate(self, game, market, pos)

\* what _process_game passes to _handle_signal: <<>> is nothing
engine_decision(strategy, game, market, pos) ==
  IF ~is_strategy_applicable(strategy, game) THEN <<>>
  ELSE LET sig == evaluate(strategy, game, market, pos)
       IN IF sig = <<>> THEN <<>> ELSE IF is_actionable(sig[1]) THEN sig ELSE <<>>

\* what _process_event turns into a simulated trade: <<>> is nothing
backtest_decision(strategy, game, market) ==
  LET sig == evaluate(strategy, game, market, <<>>)
  IN IF sig = <<>> THEN <<>> ELSE IF is_actionable(sig[1]) THEN sig ELSE <<>>

ScoreMarginStrategy(name, config) == [type |-> "margin", name |-> name, config |-> config]

GameTimeStrategy(name, config) == [type |-> "time", name |-> name, config |-> config]

CompositeStrategy(name, config, children) ==
  [type |-> "composite", name |-> name, config |-> config, strategies |-> children]

MarginConfigs ==
  [min_margin : 1..MaxScore]
  \cup [min_margin : 1..MaxScore, direction : {"leading", "trailing"}]
  \cup [min_margin : 1..MaxScore, direction : {"leading", "trailing"},
        side : {"no"}, size : {1}, limit_offset : {0}]
  \cup [min_margin : {1}, size : {0}]
  \cup [min_margin : {1}, targets : {<<>>, <<[sport |-> "nba"]>>, <<[sport |-> "nba"], [sport |-> "nfl"]>>}]

TimeConfigs ==
  [min_period : 1..MaxPeriod] \cup [min_period : 1..MaxPeriod, max_clock : 0..MaxClock]

CompositeConfigs == {<<>>, [operator |-> "and"], [operator |-> "or"]}

MarginStrategies == {ScoreMarginStrategy("margin", c) : c \in MarginConfigs}

TimeStrategies == {GameTimeStrategy("time", c) : c \in TimeConfigs}

Leaves ==
  { ScoreMarginStrategy("home", [min_margin |-> 1]),
    ScoreMarginStrategy("rout", [min_margin |-> MaxScore, direction |-> "leading",
                                 side |-> "no", size |-> 1, limit_offset |-> 0]),
    ScoreMarginStrategy("away", [min_margin |-> 1, direction |-> "trailing"]),
    GameTimeStrategy("late", [min_period |-> MaxPeriod, max_clock |-> 0]) }

Inner ==
  { CompositeStrategy("inner", [operator |-> "and"],
      << GameTimeStrategy("late", [min_period |-> MaxPeriod, max_clock |-> 0]),
         ScoreMarginStrategy("rout", [min_margin |-> MaxScore, direction |-> "leading",
                                      side |-> "no", size |-> 1, limit_offset |-> 0]) >>),
    CompositeStrategy("inner", [operator |-> "or"],
      << ScoreMarginStrategy("away", [min_margin |-> 1, direction |-> "trailing"]),
         ScoreMarginStrategy("home", [min_margin |-> 1]) >>) }

Nested ==
  Inner \cup {CompositeStrategy("outer", [operator |-> "or"], <<c>>) : c \in Inner}

Children(pool) ==
  {<<>>} \cup {<<a>> : a \in pool} \cup {<<a, b>> : a \in pool, b \in pool}

Composites ==
  {CompositeStrategy("composite", c, ch) :
     c \in CompositeConfigs, ch \in Children(Leaves \cup Nested)}

Strategies == MarginStrategies \cup TimeStrategies \cup Composites

InitS ==
  /\ state = RiskState
  /\ today = 0
  /\ last = "init"
  /\ dry_run = TRUE
  /\ market_cache = <<>>
  /\ Idle
  /\ NoFeed
  /\ NoQuote
  /\ NoTrade
  /\ subject \in Strategies
  /\ game_state \in GameStates
  /\ market_state \in MarketStates
  /\ held = <<>>
  /\ called = "none"
  /\ returned = <<>>
  /\ time_valid = FALSE
  /\ NoRun

Evaluate(pos) ==
  /\ called = "none"
  /\ called' = "evaluate"
  /\ held' = pos
  /\ returned' = evaluate(subject, game_state, market_state, pos)
  /\ UNCHANGED <<state, today, last, engine, subject, game_state, market_state, time_valid,
                 backtest, feed, quote, traded>>

IsTimeValid ==
  /\ called = "none"
  /\ subject.type = "time"
  /\ called' = "is_time_valid"
  /\ time_valid' = is_time_valid(subject, game_state)
  /\ UNCHANGED <<state, today, last, engine, subject, game_state, market_state, held,
                 returned, backtest, feed, quote, traded>>

NextS ==
  \/ \E pos \in HeldPositions : Evaluate(pos)
  \/ IsTimeValid

SpecStrategy == InitS /\ [][NextS]_vars

(* ----------------------------- backtester ------------------------------ *)
MaxSnapshots == 3

EventIds == {"e1", "e2"}

\* a row of game_states as insert_game_state wrote it, without its timestamp
Rows ==
  {[event_id |-> e, sport |-> "nfl", home_score |-> h, away_score |-> 0, period |-> 1,
    clock_seconds |-> 0, status |-> st, margin |-> h] :
     e \in EventIds, h \in {0, 1}, st \in {"in", "post"}}

\* the rows of a query in timestamp order, the timestamp being the rank
Queries ==
  UNION {{[i \in 1..n |-> [event_id |-> f[i].event_id, sport |-> f[i].sport,
                           home_score |-> f[i].home_score, away_score |-> f[i].away_score,
                           period |-> f[i].period, clock_seconds |-> f[i].clock_seconds,
                           status |-> f[i].status, margin |-> f[i].margin,
                           timestamp |-> i]] : f \in [1..n -> Rows]} : n \in 0..MaxSnapshots}

StrategyLists ==
  { <<>>,
    << ScoreMarginStrategy("lead", [min_margin |-> 1]),
       ScoreMarginStrategy("flat", [min_margin |-> 1, size |-> 0]) >>,
    << ScoreMarginStrategy("dup", [min_margin |-> 1, side |-> "no", size |-> 1,
                                   limit_offset |-> 0]),
       ScoreMarginStrategy("dup", [min_margin |-> 1]) >>,
    << CompositeStrategy("late_lead", [operator |-> "and"],
         << GameTimeStrategy("late", [min_period |-> 1]),
            ScoreMarginStrategy("lead", [min_margin |-> 1]) >>) >>,
    << ScoreMarginStrategy("free", [min_margin |-> 1, limit_offset |-> 0 - 53]) >>,
    << ScoreMarginStrategy("par", [min_margin |-> 1, limit_offset |-> 47]) >> }

\* the strategy of the backtester's tests
sample_strategy ==
  ScoreMarginStrategy("test_strategy", [min_margin |-> 7, direction |-> "leading", size |-> 10])

Snapshot(timestamp, home_score, away_score, period, clock_seconds, status) ==
  [event_id |-> "123", sport |-> "nfl", home_score |-> home_score, away_score |-> away_score,
   period |-> period, clock_seconds |-> clock_seconds, status |-> status,
   margin |-> home_score - away_score, timestamp |-> timestamp]

\* the game_states rows of the backtester's tests
populated_db ==
  << Snapshot(1, 7, 7, 1, 600, "in"),
     Snapshot(2, 14, 7, 2, 300, "in"),
     Snapshot(3, 21, 7, 3, 600, "in"),
     Snapshot(4, 28, 14, 4, 300, "in"),
     Snapshot(5, 31, 21, 4, 0, "post") >>

group_append(evs, row) ==
  IF \E i \in 1..Len(evs) : evs[i].event_id = row.event_id
  THEN [i \in 1..Len(evs) |->
          IF evs[i].event_id = row.event_id
          THEN [evs[i] EXCEPT !.snapshots = Append(@, row)]
          ELSE evs[i]]
  ELSE Append(evs, [event_id |-> row.event_id, snapshots |-> <<row>>])

RECURSIVE group_loop(_, _)
group_loop(evs, rows) ==
  IF rows = <<>> THEN evs ELSE group_loop(group_append(evs, Head(rows)), Tail(rows))

\* the dict of event id to rows, in insertion order
group_by_event(rows) == group_loop(<<>>, rows)

snapshot_to_game_state(snapshot) ==
  [sport |-> snapshot.sport, home_score |-> snapshot.home_score,
   away_score |-> snapshot.away_score, period |-> snapshot.period,
   clock_seconds |-> snapshot.clock_seconds, status |-> snapshot.status]

Min(a, b) == IF a < b THEN a ELSE b

create_simulated_market(snapshot) ==
  LET base_prob == 50
      prob_adjustment == Min(40, Abs(snapshot.margin) * 3)
      yes_price == IF snapshot.margin > 0 THEN Min(95, base_prob + prob_adjustment)
                   ELSE Max(5, base_prob - prob_adjustment)
  IN [ticker |-> snapshot.event_id, status |-> "open", yes_bid |-> yes_price - 2,
      yes_ask |-> yes_price, no_bid |-> 100 - yes_price - 2, no_ask |-> 100 - yes_price]

simulate_trade_first_snapshot(sig, entry_snapshot, strategy_name, all_snapshots) ==
  LET final_snapshot == all_snapshots[1]
      home_won == final_snapshot.home_score > final_snapshot.away_score
      won == IF sig.side = "yes" THEN home_won ELSE ~home_won
      entry_price == IF Truthy(sig.price) THEN sig.price ELSE 50
  IN [timestamp |-> entry_snapshot.timestamp, event_id |-> entry_snapshot.event_id,
      strategy_name |-> strategy_name, signal |-> sig.signal, side |-> sig.side,
      size |-> sig.size, entry_price |-> entry_price,
      exit_price |-> IF won THEN 100 ELSE 0,
      pnl |-> IF won THEN (100 - entry_price) * sig.size ELSE (0 - entry_price) * sig.size,
      outcome |-> IF won THEN "win" ELSE "loss"]

simulate_trade_wall_clock(sig, entry_snapshot, strategy_name, all_snapshots) ==
  LET final_snapshot == all_snapshots[Len(all_snapshots)]
      home_won == final_snapshot.home_score > final_snapshot.away_score
      won == IF sig.side = "yes" THEN home_won ELSE ~home_won
      entry_price == IF Truthy(sig.price) THEN sig.price ELSE 50
  IN [timestamp |-> sig.timestamp, event_id |-> entry_snapshot.event_id,
      strategy_name |-> strategy_name, signal |-> sig.signal, side |-> sig.side,
      size |-> sig.size, entry_price |-> entry_price,
      exit_price |-> IF won THEN 100 ELSE 0,
      pnl |-> IF won THEN (100 - entry_price) * sig.size ELSE (0 - entry_price) * sig.size,
      outcome |-> IF won THEN "win" ELSE "loss"]

simulate_trade(sig, entry_snapshot, strategy_name, all_snapshots) ==
  LET final_snapshot == all_snapshots[Len(all_snapshots)]
      home_won == final_snapshot.home_score > final_snapshot.away_score
      won == IF sig.side = "yes" THEN home_won ELSE ~home_won
      entry_price == IF Truthy(sig.price) THEN sig.price ELSE 50
  IN [timestamp |-> entry_snapshot.timestamp, event_id |-> entry_snapshot.event_id,
      strategy_name |-> strategy_name, signal |-> sig.signal, side |-> sig.side,
      size |-> sig.size, entry_price |-> entry_price,
      exit_price |-> IF won THEN 100 ELSE 0,
      pnl |-> IF won THEN (100 - entry_price) * sig.size ELSE (0 - entry_price) * sig.size,
      outcome |-> IF won THEN "win" ELSE "loss"]

strategy_key(strategy, snapshot) == <<strategy.name, snapshot.event_id>>

never_signaled(keys, key) == FALSE

already_signaled(keys, key) == key \in keys

record_signal_skips_losses(res, trade) ==
  [total_signals |-> res.total_signals + 1,
   total_trades |-> res.total_trades + 1,
   winning_trades |-> res.winning_trades + (IF trade.outcome = "win" THEN 1 ELSE 0),
   losing_trades |-> res.losing_trades + (IF trade.outcome = "loss" THEN 1 ELSE 0),
   total_pnl |-> res.total_pnl + (IF trade.outcome = "win" THEN trade.pnl ELSE 0),
   trades |-> Append(res.trades, trade),
   strategies |-> res.strategies]

record_signal(res, trade) ==
  [total_signals |-> res.total_signals + 1,
   total_trades |-> res.total_trades + 1,
   winning_trades |-> res.winning_trades + (IF trade.outcome = "win" THEN 1 ELSE 0),
   losing_trades |-> res.losing_trades + (IF trade.outcome = "loss" THEN 1 ELSE 0),
   total_pnl |-> res.total_pnl + (IF trade.outcome \in {"win", "loss"} THEN trade.pnl ELSE 0),
   trades |-> Append(res.trades, trade),
   strategies |-> res.strategies]

\* BacktestResult.win_rate as the fraction <<numerator, denominator>>
win_rate(res) ==
  IF res.total_trades = 0 THEN <<0, 1>> ELSE <<res.winning_trades, res.total_trades>>

InitB ==
  /\ state = RiskState
  /\ today = 0
  /\ last = "init"
  /\ dry_run = TRUE
  /\ market_cache = <<>>
  /\ Idle
  /\ NoFeed
  /\ NoQuote
  /\ NoTrade
  /\ NoCall
  /\ \/ bt_strategies \in StrategyLists /\ snapshots \in Queries
     \/ bt_strategies = <<sample_strategy>> /\ snapshots = populated_db
  /\ bt = "init"
  /\ events = <<>>
  /\ snap = 1
  /\ strat = 1
  /\ signaled = {}
  /\ result = BacktestResult
  /\ evaluations = <<>>
  /\ wall_clock = 0
  /\ previous = <<>>

Online == <<state, today, last, engine, subject, game_state, market_state, held, called,
            returned, time_valid, feed, quote, traded>>

\* [s.name for s in self.strategies]
strategy_names(strategy_list) == [i \in 1..Len(strategy_list) |-> strategy_list[i].name]

RunEmpty ==
  /\ bt = "init"
  /\ snapshots = <<>>
  /\ result' = [BacktestResult EXCEPT !.strategies = strategy_names(bt_strategies)]
  /\ bt' = "done"
  /\ UNCHANGED <<Online, wall_clock, previous, bt_strategies, snapshots, events, snap, strat,
                 signaled, evaluations>>

Run ==
  /\ bt = "init"
  /\ snapshots # <<>>
  /\ result' = [BacktestResult EXCEPT !.strategies = strategy_names(bt_strategies)]
  /\ events' = group_by_event(snapshots)
  /\ bt' = "event"
  /\ UNCHANGED <<Online, wall_clock, previous, bt_strategies, snapshots, snap, strat, signaled,
                 evaluations>>

CurrentSnapshots == Head(events).snapshots

InSnapshot ==
  /\ bt = "event"
  /\ snap <= Len(CurrentSnapshots)

EventDone ==
  /\ bt = "event"
  /\ snap > Len(CurrentSnapshots)
  /\ events' = Tail(events)
  /\ bt' = IF Tail(events) = <<>> THEN "done" ELSE "event"
  /\ snap' = 1
  /\ strat' = 1
  /\ signaled' = {}
  /\ UNCHANGED <<Online, wall_clock, previous, bt_strategies, snapshots, result, evaluations>>

SnapshotNotLive ==
  /\ InSnapshot
  /\ ~is_live(snapshot_to_game_state(CurrentSnapshots[snap]))
  /\ snap' = snap + 1
  /\ UNCHANGED <<Online, wall_clock, previous, bt_strategies, snapshots, bt, events, strat, signaled, result,
                 evaluations>>

NoStrategies ==
  /\ InSnapshot
  /\ is_live(snapshot_to_game_state(CurrentSnapshots[snap]))
  /\ bt_strategies = <<>>
  /\ snap' = snap + 1
  /\ UNCHANGED <<Online, wall_clock, previous, bt_strategies, snapshots, bt, events, strat, signaled, result,
                 evaluations>>

InStrategy ==
  /\ InSnapshot
  /\ is_live(snapshot_to_game_state(CurrentSnapshots[snap]))
  /\ bt_strategies # <<>>

NextInLoop ==
  /\ IF strat < Len(bt_strategies)
     THEN strat' = strat + 1 /\ snap' = snap
     ELSE strat' = 1 /\ snap' = snap + 1
  /\ UNCHANGED <<Online, wall_clock, previous, bt_strategies, snapshots, bt, events>>

\* a TradeSignal carries the time of its creation
created_at(sig, clock) ==
  IF sig = <<>> THEN <<>>
  ELSE <<[signal |-> sig[1].signal, ticker |-> sig[1].ticker, side |-> sig[1].side,
          size |-> sig[1].size, price |-> sig[1].price, timestamp |-> clock]>>

Evaluated(snapshot) ==
  created_at(evaluate(bt_strategies[strat], snapshot_to_game_state(snapshot),
                      create_simulated_market(snapshot), <<>>), wall_clock)

Evaluation(snapshot, sig) ==
  [strategy |-> strat, event_id |-> snapshot.event_id, timestamp |-> snapshot.timestamp,
   signalled |-> IF sig = <<>> THEN FALSE ELSE is_actionable(sig[1])]

AlreadySignaled ==
  /\ InStrategy
  /\ already_signaled(signaled, strategy_key(bt_strategies[strat], CurrentSnapshots[snap]))
  /\ NextInLoop
  /\ UNCHANGED <<signaled, result, evaluations>>

NoSignal ==
  LET snapshot == CurrentSnapshots[snap]
      sig == Evaluated(snapshot)
  IN /\ InStrategy
     /\ ~already_signaled(signaled, strategy_key(bt_strategies[strat], snapshot))
     /\ IF sig = <<>> THEN TRUE ELSE ~is_actionable(sig[1])
     /\ evaluations' = Append(evaluations, Evaluation(snapshot, sig))
     /\ NextInLoop
     /\ UNCHANGED <<signaled, result>>

TradeSimulated ==
  LET snapshot == CurrentSnapshots[snap]
      strategy == bt_strategies[strat]
      sig == Evaluated(snapshot)
  IN /\ InStrategy
     /\ ~already_signaled(signaled, strategy_key(strategy, snapshot))
     /\ sig # <<>>
     /\ is_actionable(sig[1])
     /\ signaled' = signaled \cup {strategy_key(strategy, snapshot)}
     /\ result' = record_signal(result,
                     simulate_trade(sig[1], snapshot, strategy.name, CurrentSnapshots))
     /\ evaluations' = Append(evaluations, Evaluation(snapshot, sig))
     /\ NextInLoop

NextB ==
  \/ RunEmpty
  \/ Run
  \/ EventDone
  \/ SnapshotNotLive
  \/ NoStrategies
  \/ AlreadySignaled
  \/ NoSignal
  \/ TradeSimulated

SpecBacktest == InitB /\ [][NextB]_vars

\* run() called again on the same Backtester and database, at a later time
Rerun(clock) ==
  /\ bt = "done"
  /\ previous = <<>>
  /\ previous' = <<result>>
  /\ wall_clock' = clock
  /\ bt' = "init"
  /\ events' = <<>>
  /\ snap' = 1
  /\ strat' = 1
  /\ signaled' = {}
  /\ result' = BacktestResult
  /\ evaluations' = <<>>
  /\ UNCHANGED <<Online, bt_strategies, snapshots>>

NextT ==
  \/ NextB
  \/ \E clock \in 0..MaxDay : Rerun(clock)

SpecBacktestTwice == InitB /\ [][NextT]_vars

(* --------------------------- simulated quote -------------------------- *)
MaxMargin == 50

\* snapshots as _create_simulated_market reads them: event id and margin
QuotedSnapshots == [event_id : {"e1"}, sport : {"nfl"}, margin : (0 - MaxMargin)..MaxMargin]

InitQ ==
  /\ state = RiskState
  /\ today = 0
  /\ last = "init"
  /\ dry_run = TRUE
  /\ market_cache = <<>>
  /\ Idle
  /\ NoFeed
  /\ NoCall
  /\ NoRun
  /\ NoTrade
  /\ quoted_snapshot \in QuotedSnapshots
  /\ simulated = <<>>

CreateSimulatedMarket ==
  /\ simulated = <<>>
  /\ simulated' = <<create_simulated_market(quoted_snapshot)>>
  /\ last' = "create_simulated_market"
  /\ UNCHANGED <<state, today, engine, subject, game_state, market_state, held, called, returned,
                 time_valid, backtest, feed, quoted_snapshot, traded>>

NextQ == CreateSimulatedMarket

SpecQuote == InitQ /\ [][NextQ]_vars

(* ------------------------------ score feed ---------------------------- *)
MaxFeedGames == 2

Sport == <<"nfl", "nba", "college-football">>

Sports == {Sport[i] : i \in 1..Len(Sport)}

StatusLists == UNION {[1..n -> GameStatuses] : n \in 0..MaxFeedGames}

\* the games get_scoreboard parses for a sport, in the order of the feed
Scoreboard(sport, statuses) ==
  [i \in 1..Len(statuses) |-> [sport |-> sport, status |-> statuses[i]]]

\* what the feed does on one request: ESPNError, or events with these states
FeedOutcomes ==
  {[ok |-> FALSE, statuses |-> <<>>]} \cup {[ok |-> TRUE, statuses |-> l] : l \in StatusLists}

Feeds ==
  {[s \in Sports |-> [ok |-> f[s].ok, games |-> Scoreboard(s, f[s].statuses)]] :
     f \in [Sports -> FeedOutcomes]}

get_live_games_unfiltered(reply) == reply

get_live_games(reply) ==
  [ok |-> reply.ok, games |-> SelectSeq(reply.games, LAMBDA game : is_live(game))]

\* one turn of the loop of get_all_live_games
collect(res, sport, reply) ==
  LET live_games == get_live_games(reply)
  IN IF ~live_games.ok THEN res
     ELSE IF live_games.games # <<>> THEN Put(res, sport, live_games.games) ELSE res

InitF ==
  /\ state = RiskState
  /\ today = 0
  /\ last = "init"
  /\ dry_run = TRUE
  /\ market_cache = <<>>
  /\ Idle
  /\ NoCall
  /\ NoRun
  /\ NoQuote
  /\ NoTrade
  /\ scoreboards \in Feeds
  /\ sport_idx = 1
  /\ collected = <<>>

Querying == sport_idx \in 1..Len(Sport)

SportFetched(label) ==
  /\ Querying
  /\ collected' = collect(collected, Sport[sport_idx], scoreboards[Sport[sport_idx]])
  /\ sport_idx' = sport_idx + 1
  /\ last' = label
  /\ UNCHANGED <<state, today, engine, subject, game_state, market_state, held, called, returned,
                 time_valid, backtest, scoreboards, quote, traded>>

SportRaises ==
  /\ Querying
  /\ ~scoreboards[Sport[sport_idx]].ok
  /\ SportFetched("sport_raises")

SportQuiet ==
  /\ Querying
  /\ scoreboards[Sport[sport_idx]].ok
  /\ get_live_games(scoreboards[Sport[sport_idx]]).games = <<>>
  /\ SportFetched("sport_quiet")

SportLive ==
  /\ Querying
  /\ scoreboards[Sport[sport_idx]].ok
  /\ get_live_games(scoreboards[Sport[sport_idx]]).games # <<>>
  /\ SportFetched("sport_live")

AllFetched ==
  /\ sport_idx = Len(Sport) + 1
  /\ sport_idx' = 0
  /\ last' = "all_fetched"
  /\ UNCHANGED <<state, today, engine, subject, game_state, market_state, held, called, returned,
                 time_valid, backtest, scoreboards, collected, quote, traded>>

NextF ==
  \/ SportRaises
  \/ SportQuiet
  \/ SportLive
  \/ AllFetched

SpecFeed == InitF /\ [][NextF]_vars

(* --------------------------- order placement --------------------------- *)
\* prices a strategy can put on a signal: none, below, inside and above the order's range
ExecutePrices == {NoPrice, 0 - 2, 0, MinOrderPrice, MaxOrderPrice, MaxOrderPrice + 1}

\* signals _handle_signal hands to _execute_trade: actionable, size not zero
ExecuteSignals ==
  [signal : {"buy", "sell"}, ticker : Tickers, side : Sides, size : 1..MaxSize,
   price : ExecutePrices, timestamp : Timestamps]

InitX ==
  /\ state = RiskState
  /\ today = 0
  /\ last = "init"
  /\ dry_run = FALSE
  /\ market_cache = <<>>
  /\ running = TRUE
  /\ shutdown_event = FALSE
  /\ pc = "execute"
  /\ games = <<>>
  /\ idx = 1
  /\ position = <<>>
  /\ pending = <<>>
  /\ orders = <<>>
  /\ NoFeed
  /\ NoQuote
  /\ NoCall
  /\ NoRun
  /\ \E sig \in ExecuteSignals : traded = <<sig>>

ExecuteInvalid ==
  /\ pc = "execute"
  /\ ~CreateOrderRequest(traded[1]).ok
  /\ pc' = "strategy"
  /\ last' = "order_invalid"
  /\ UNCHANGED <<state, today, dry_run, market_cache, running, shutdown_event, games, idx,
                 position, pending, orders, offline>>

ExecuteSubmit ==
  /\ pc = "execute"
  /\ CreateOrderRequest(traded[1]).ok
  /\ pending' = <<[signal |-> traded[1], adjusted |-> traded[1],
                   order |-> CreateOrderRequest(traded[1]).order]>>
  /\ pc' = "order"
  /\ last' = "order_submit"
  /\ UNCHANGED <<state, today, dry_run, market_cache, running, shutdown_event, games, idx,
                 position, orders, offline>>

NextX ==
  \/ ExecuteInvalid
  \/ ExecuteSubmit
  \/ OrderAccepted
  \/ OrderRaises

SpecExecute == InitX /\ [][NextX]_vars

(* ------------------------- risk manager claims ------------------------ *)
PositionLimitOk(s) ==
  \A t \in Tickers : Abs(Get(s.positions, t)) <= max_position_size

ExposureSum(s) == SumOver([t \in Tickers |-> Get(s.exposure, t)], Tickers)

ExposureLimitOk(s) ==
  /\ \A t \in Tickers : Get(s.exposure, t) <= max_exposure_per_market
  /\ ExposureSum(s) <= max_total_exposure
  /\ total_exposure(s) = ExposureSum(s)

LastTrade(s) == s.trades[Len(s.trades)]

Gated(s, now, sig, fill_price) ==
  LET st == reset_daily(s, now)
  IN record_trade(st, now, adjust_signal(st, sig), fill_price, 0)

(* C1: a trade taken through can_trade = true, adjust_signal, record_trade  *)
(* from a state within the position limit leaves every ticker's position   *)
(* within max_position_size, for actionable buy and sell signals.          *)
C1_PositionLimit ==
  \A sig \in Actionable :
    (PositionLimitOk(state) /\ can_trade(state, today, sig).ret)
      => PositionLimitOk(Gated(state, today, sig, PriceOrZero(sig.price)))

C1_Witness ==
  /\ last = "gated_trade"
  /\ state.trades # <<>>
  /\ LastTrade(state).action = "sell"
  /\ LastTrade(state).size > 0
  /\ LastTrade(state).size < MaxSize
  /\ Get(state.positions, LastTrade(state).ticker) = 0 - max_position_size
  /\ PositionLimitOk(state)

(* C2: a priced signal taken through the gated sequence with fill price =   *)
(* signal price, from a state within the exposure limits, leaves every     *)
(* per-ticker exposure within max_exposure_per_market and the total (the   *)
(* sum of the per-ticker exposures) within max_total_exposure.             *)
C2_ExposureLimit ==
  \A sig \in Actionable :
    (sig.price # NoPrice /\ ExposureLimitOk(state) /\ can_trade(state, today, sig).ret)
      => ExposureLimitOk(Gated(state, today, sig, sig.price))

C2_Witness ==
  /\ last = "gated_trade"
  /\ state.trades # <<>>
  /\ LastTrade(state).price > 0
  /\ LastTrade(state).size > 0
  /\ ExposureSum(state) = max_total_exposure
  /\ ExposureLimitOk(state)

(* C3: is_daily_limit_reached() is true exactly when max_daily_loss +       *)
(* daily_pnl (after the implicit daily reset) is <= 0, and whenever it is  *)
(* true can_trade returns false for every signal.                          *)
C3_DailyStop ==
  LET reached == is_daily_limit_reached(state, today).ret
      pnl == IF state.trade_date = today THEN state.daily_pnl ELSE 0
  IN /\ reached <=> (max_daily_loss + pnl <= 0)
     /\ reached => \A sig \in Signals : ~can_trade(state, today, sig).ret

C3_Witness ==
  /\ is_daily_limit_reached(state, today).ret
  /\ state.trades # <<>>
  /\ \E sig \in Signals :
        /\ Abs(Get(state.positions, sig.ticker) + sig.size) <= max_position_size
        /\ sig.price = NoPrice

C4_Rejected(s, sig) ==
  \/ s.daily_pnl <= 0 - max_daily_loss
  \/ Abs(Get(s.positions, sig.ticker) + sig.size) > max_position_size
  \/ /\ sig.price # NoPrice
     /\ \/ Get(s.exposure, sig.ticker) + sig.size * sig.price > max_exposure_per_market
        \/ ExposureSum(s) + sig.size * sig.price > max_total_exposure

(* C4: can_trade returns false if daily_pnl <= -max_daily_loss, or the new  *)
(* position would exceed max_position_size, or the signal carries a price  *)
(* and the per-market or the total exposure would be exceeded; and true in *)
(* every other case, for every reachable state and every signal.           *)
C4_CanTradeTable ==
  \A sig \in Signals :
    can_trade(state, today, sig).ret = ~C4_Rejected(reset_daily(state, today), sig)

C4_Witness ==
  /\ last = "record_trade"
  /\ \E sig \in Signals :
        /\ sig.price = 0
        /\ Get(state.exposure, sig.ticker) > max_exposure_per_market
        /\ can_trade(state, today, sig).ret

C10_Effect(s, t, sig, fill_price, realized_pnl) ==
  /\ Get(t.positions, sig.ticker) =
       Get(s.positions, sig.ticker) + (IF sig.signal = "buy" THEN sig.size ELSE 0 - sig.size)
  /\ Get(t.exposure, sig.ticker) = Get(s.exposure, sig.ticker) + sig.size * fill_price
  /\ Get(t.exposure, sig.ticker) >= Get(s.exposure, sig.ticker)
  /\ t.daily_pnl = s.daily_pnl + realized_pnl
  /\ Len(t.trades) = Len(s.trades) + 1
  /\ SubSeq(t.trades, 1, Len(s.trades)) = s.trades
  /\ LastTrade(t) = [timestamp |-> sig.timestamp, ticker |-> sig.ticker, side |-> sig.side,
                     action |-> sig.signal, size |-> sig.size, price |-> fill_price,
                     pnl |-> realized_pnl]
  /\ t.trade_date = s.trade_date
  /\ \A u \in Tickers \ {sig.ticker} :
        /\ (u \in DOMAIN t.positions) = (u \in DOMAIN s.positions)
        /\ (u \in DOMAIN t.exposure) = (u \in DOMAIN s.exposure)
        /\ Get(t.positions, u) = Get(s.positions, u)
        /\ Get(t.exposure, u) = Get(s.exposure, u)

(* C10: record_trade on the current day moves the ticker's position by      *)
(* +size (buy) or -size (sell), adds size*fill_price to its exposure, adds *)
(* realized_pnl to daily_pnl, appends exactly one TradeRecord with the     *)
(* signal's fields, the fill price and the P&L, and leaves the other       *)
(* tickers' position and exposure alone.                                   *)
C10_RecordTrade ==
  \A sig \in Unpriced, fill_price \in {0, MaxPrice}, p \in {0 - MaxPnl, MaxPnl} :
    state.trade_date = today
      => C10_Effect(state, record_trade(state, today, sig, fill_price, p), sig, fill_price, p)

C10_Witness ==
  /\ last = "record_trade"
  /\ state.trades # <<>>
  /\ LastTrade(state).action = "sell"
  /\ LastTrade(state).pnl # 0
  /\ \E u \in Tickers \ {LastTrade(state).ticker} : u \in DOMAIN state.positions

(* ------------------- risk manager claims, continued -------------------- *)
SameButSize(a, b) ==
  /\ a.signal = b.signal
  /\ a.ticker = b.ticker
  /\ a.side = b.side
  /\ a.price = b.price
  /\ a.timestamp = b.timestamp

C11_Allowed(s, ticker) ==
  LET room == max_position_size - Abs(Get(s.positions, ticker))
  IN IF room > 0 THEN room ELSE 0

(* C11: adjust_signal never increases size: it returns the signal as given  *)
(* when size <= max(0, max_position_size - abs(position)), and otherwise a *)
(* signal of exactly that size with the same kind, ticker, side, price and *)
(* timestamp; the returned size is >= 0.                                   *)
C11_AdjustSignal ==
  \A sig \in GateInputs :
    LET adjusted == adjust_signal(state, sig)
        allowed == C11_Allowed(state, sig.ticker)
    IN /\ max_allowed_size(state, sig.ticker) = allowed
       /\ sig.size <= allowed => adjusted = sig
       /\ sig.size > allowed => adjusted.size = allowed /\ SameButSize(adjusted, sig)
       /\ adjusted.size <= sig.size
       /\ adjusted.size >= 0

C11_Witness ==
  /\ last = "gated_trade"
  /\ state.trades # <<>>
  /\ LastTrade(state).size = 0
  /\ Abs(Get(state.positions, LastTrade(state).ticker)) >= max_position_size

C12_Reset(s, now) ==
  IF s.trade_date = now THEN s
  ELSE [positions |-> s.positions, exposure |-> s.exposure, daily_pnl |-> 0,
        trade_date |-> now, trades |-> <<>>]

(* C12: every operation that triggers the daily reset (reset_daily,         *)
(* can_trade, record_trade, daily_loss_remaining, is_daily_limit_reached)  *)
(* zeroes daily_pnl, empties the trade list and sets trade_date to the     *)
(* current date when the stored date differs, leaving positions and        *)
(* exposure untouched; on the current date it changes nothing, so a second *)
(* reset equals the first.                                                 *)
C12_DailyReset ==
  LET r == C12_Reset(state, today)
  IN /\ reset_daily(state, today) = r
     /\ reset_daily(reset_daily(state, today), today) = reset_daily(state, today)
     /\ daily_loss_remaining(state, today).state = r
     /\ is_daily_limit_reached(state, today).state = r
     /\ \A sig \in Unpriced :
          /\ can_trade(state, today, sig).state = r
          /\ record_trade(state, today, sig, 0, 0) = record_trade(r, today, sig, 0, 0)
          /\ Len(record_trade(state, today, sig, 0, 0).trades) = Len(r.trades) + 1
          /\ record_trade(state, today, sig, 0, 0).daily_pnl = r.daily_pnl
          /\ record_trade(state, today, sig, 0, 0).trade_date = today

C12_Witness ==
  /\ last = "record_trade"
  /\ today > 0
  /\ state.trade_date = today
  /\ state.trades = <<>>
  /\ state.daily_pnl = 0
  /\ \E t \in Tickers : Get(state.exposure, t) > 0

(* C13: update_position overwrites the reported ticker's position and       *)
(* exposure with the report's values whatever was recorded before, and     *)
(* leaves the other tickers, daily_pnl, trade_date and the trade list      *)
(* unchanged.                                                              *)
C13_UpdatePosition ==
  \A pos \in AllReports \cup Reports :
    LET r == update_position(state, pos)
    IN /\ pos.ticker \in DOMAIN r.positions /\ r.positions[pos.ticker] = pos.position
       /\ pos.ticker \in DOMAIN r.exposure /\ r.exposure[pos.ticker] = pos.market_exposure
       /\ r.daily_pnl = state.daily_pnl
       /\ r.trade_date = state.trade_date
       /\ r.trades = state.trades
       /\ \A u \in Tickers \ {pos.ticker} :
            /\ (u \in DOMAIN r.positions) = (u \in DOMAIN state.positions)
            /\ (u \in DOMAIN r.exposure) = (u \in DOMAIN state.exposure)
            /\ Get(r.positions, u) = Get(state.positions, u)
            /\ Get(r.exposure, u) = Get(state.exposure, u)

C13_Witness ==
  /\ state.trades # <<>>
  /\ LastTrade(state).size = MaxSize
  /\ LastTrade(state).price = MaxPrice
  /\ Get(state.positions, LastTrade(state).ticker) = 0 - 1
  /\ Get(state.exposure, LastTrade(state).ticker) = 1

(* C14 as stated: can_trade leaves positions, exposure, daily_pnl and the   *)
(* trade list as they were before the call, whatever it returns.           *)
C14_GatesLeaveState ==
  \A sig \in GateInputs :
    LET r == can_trade(state, today, sig).state
    IN /\ r.positions = state.positions
       /\ r.exposure = state.exposure
       /\ r.daily_pnl = state.daily_pnl
       /\ r.trades = state.trades

(* C14 amended: can_trade never changes positions or exposure, and changes  *)
(* daily_pnl, the trade list and trade_date only by the daily reset, so it *)
(* leaves the whole state unchanged when trade_date is the current date;   *)
(* a limit that would be exceeded shows in its return value.               *)
C14_PureGates ==
  \A sig \in GateInputs :
    LET r == can_trade(state, today, sig)
    IN /\ r.state.positions = state.positions
       /\ r.state.exposure = state.exposure
       /\ state.trade_date = today => r.state = state
       /\ r.state = C12_Reset(state, today)
       /\ r.ret \in BOOLEAN
       /\ Abs(Get(state.positions, sig.ticker) + sig.size) > max_position_size => ~r.ret

C14_Witness ==
  /\ state.trade_date = today
  /\ state.trades # <<>>
  /\ state.daily_pnl > 0 - max_daily_loss
  /\ \E sig \in GateInputs : ~can_trade(state, today, sig).ret
  /\ \E sig \in GateInputs : can_trade(state, today, sig).ret /\ sig.price = 1 /\ sig.size > 0

(* --------------------------- live engine claims ------------------------ *)
LastOrder(os) == os[Len(os)]

(* C5: every order submitted upstream comes from an actionable strategy     *)
(* result for which can_trade returned true in the same handling step; its *)
(* count is the size returned by adjust_signal, > 0 and <= the signal's    *)
(* size; a blocked signal or one adjusted to size 0 never yields an order. *)
C5_OrderGating ==
  [][/\ pc' = "order" /\ pc # "order" =>
          /\ pc = "strategy"
          /\ pending' # <<>>
          /\ is_actionable(pending'[1].signal)
          /\ can_trade(state, today, pending'[1].signal).ret
          /\ pending'[1].adjusted = adjust_signal(state, pending'[1].signal)
          /\ pending'[1].adjusted.size > 0
          /\ pending'[1].adjusted.size <= pending'[1].signal.size
          /\ pending'[1].order.count = pending'[1].adjusted.size
     /\ orders' # orders =>
          /\ pc = "order"
          /\ orders' = Append(orders, pending[1].order)
          /\ LastOrder(orders').count = pending[1].adjusted.size
          /\ LastOrder(orders').count > 0
          /\ LastOrder(orders').count <= pending[1].signal.size]_vars

C5_Witness ==
  /\ last = "order_accepted"
  /\ orders # <<>>
  /\ state.trades # <<>>
  /\ LastOrder(orders).count = 1
  /\ LastOrder(orders).action = "sell"
  /\ Get(state.positions, LastOrder(orders).ticker) = 0 - max_position_size

External == \E sig \in ExternalSignals : ExternalRecordTrade(sig, 0 - MaxPnl)

(* C6: in dry-run mode the engine never submits an order and never calls    *)
(* record_trade; its steps change the risk state only through              *)
(* update_position and the daily reset.                                    *)
C6_DryRun ==
  [][(dry_run /\ ~External) =>
       /\ orders' = <<>>
       /\ pending' = <<>>
       /\ pc' # "order"
       /\ Len(state'.trades) <= Len(state.trades)
       /\ state' # state =>
            \/ /\ pc = "position"
               /\ \E pos \in EngineReports : state' = update_position(state, pos)
            \/ /\ state.trade_date # today
               /\ state' = [state EXCEPT !.daily_pnl = 0, !.trade_date = today,
                                         !.trades = <<>>]]_vars

C6_Witness ==
  /\ dry_run
  /\ last = "dry_run_log"
  /\ pc = "strategy"
  /\ orders = <<>>
  /\ state.trades = <<>>
  /\ today > 0
  /\ DOMAIN state.positions # {}

C7_Recorded(s, t, now, sig) ==
  LET st == IF s.trade_date = now THEN s
            ELSE [s EXCEPT !.daily_pnl = 0, !.trade_date = now, !.trades = <<>>]
  IN C10_Effect(st, t, sig, IF sig.price = NoPrice THEN 0 ELSE sig.price, 0)

(* C7: in live mode record_trade runs exactly once per order the upstream   *)
(* API accepted, after the order call returned, with the adjusted signal   *)
(* and its price (0 when it carries none) as fill price and P&L 0; when    *)
(* building or submitting the order raises, nothing is recorded.           *)
C7_LiveRecord ==
  [][~dry_run =>
       /\ orders' # orders =>
            /\ pc = "order"
            /\ Len(orders') = Len(orders) + 1
            /\ C7_Recorded(state, state', today, pending[1].adjusted)
       /\ (pc = "order" /\ pc' # "order" /\ orders' = orders) =>
            /\ state' = state
            /\ pc' = "strategy"
            /\ idx' = idx + 1
       /\ (last' = "order_invalid" /\ idx' # idx) =>
            /\ orders' = orders
            /\ state'.trades = (IF state.trade_date = today THEN state.trades ELSE <<>>)
            /\ state'.positions = state.positions
            /\ state'.exposure = state.exposure
            /\ pc' = "strategy"
       /\ (Len(state'.trades) > Len(state.trades) /\ ~External) => orders' # orders]_vars

C7_Witness ==
  /\ ~dry_run
  /\ last = "order_accepted"
  /\ orders # <<>>
  /\ state.trades # <<>>
  /\ LastTrade(state).price = MaxPrice
  /\ LastTrade(state).size = LastOrder(orders).count

C8_Reached(s, now) ==
  max_daily_loss + (IF s.trade_date = now THEN s.daily_pnl ELSE 0) <= 0

(* C8: a polling cycle starts with reset_daily; if the daily loss limit is  *)
(* then reached the cycle ends at once without fetching the score feed,    *)
(* looking up a market or position, evaluating a strategy or submitting an *)
(* order; on the first cycle of a new day the reset lifts the stop first.  *)
C8_CycleStart ==
  [][(pc = "cycle" /\ pc' # "cycle") =>
       /\ state'.trade_date = today
       /\ state'.daily_pnl = (IF state.trade_date = today THEN state.daily_pnl ELSE 0)
       /\ state'.trades = (IF state.trade_date = today THEN state.trades ELSE <<>>)
       /\ state'.positions = state.positions
       /\ state'.exposure = state.exposure
       /\ UNCHANGED <<games, idx, position, pending, orders>>
       /\ C8_Reached(state, today) => pc' = "wait"
       /\ ~C8_Reached(state, today) => pc' = "fetch"
       /\ (state.trade_date # today /\ max_daily_loss > 0) => pc' = "fetch"]_vars

C8_Witness ==
  /\ last = "cycle_skip"
  /\ pc = "wait"
  /\ state.daily_pnl <= 0 - max_daily_loss
  /\ state.trade_date = today

C8_WitnessNewDay ==
  /\ last = "cycle_fetch_new_day"
  /\ pc = "fetch"
  /\ state.daily_pnl = 0

(* C9: once stop() has fired while run() is looping, the inter-cycle wait   *)
(* ends without waiting out the poll interval, no further polling cycle is *)
(* started, and run() terminates with the running flag false.              *)
C9_Shutdown ==
  /\ [][shutdown_event =>
          /\ ~running'
          /\ shutdown_event'
          /\ pc' = "cycle" => pc = "cycle"
          /\ pc = "wait" /\ pc' # "wait" => last' = "wait_shutdown" /\ pc' = "loop"
          /\ pc = "loop" /\ pc' # "loop" => pc' = "done"]_vars
  /\ (shutdown_event ~> (pc = "done" /\ ~running))

C9_Witness ==
  /\ last = "wait_shutdown"
  /\ pc = "loop"
  /\ shutdown_event
  /\ ~running

(* --------------------------- strategy claims --------------------------- *)
live_game ==
  [sport |-> "nfl", home_score |-> 21, away_score |-> 14, period |-> 4, clock_seconds |-> 300,
   status |-> "in"]

open_market == [ticker |-> "NFL-2426-BUF", status |-> "open", yes_ask |-> 64, no_ask |-> 38]

C15_Triggers(cfg, game, market) ==
  LET direction == IF "direction" \in DOMAIN cfg THEN cfg.direction ELSE "leading"
      home_ahead == game.home_score > game.away_score
  IN /\ game.status = "in"
     /\ market.status = "open"
     /\ Abs(game.home_score - game.away_score) >= cfg.min_margin
     /\ direction = "leading" => home_ahead
     /\ direction = "trailing" => ~home_ahead

C15_Buy(cfg, market) ==
  LET side == IF "side" \in DOMAIN cfg THEN cfg.side ELSE "yes"
      size == IF "size" \in DOMAIN cfg THEN cfg.size ELSE 10
      offset == IF "limit_offset" \in DOMAIN cfg THEN cfg.limit_offset ELSE 2
  IN [signal |-> "buy", ticker |-> market.ticker, side |-> side, size |-> size,
      price |-> IF side = "yes" THEN market.yes_ask + offset ELSE market.no_ask + offset]

(* C15: the margin strategy's evaluate returns None unless the game is    *)
(* live, the market open, abs(margin) >= min_margin and the home team     *)
(* ahead for 'leading' or not ahead for 'trailing'; otherwise it returns  *)
(* a BUY on the configured side of the configured size (default 10) at    *)
(* the side's ask plus the offset (default 2). Home 21, away 14: BUY for  *)
(* min_margin 7 leading, None for min_margin 10, None for trailing.       *)
C15_MarginStrategy ==
  /\ (called = "evaluate" /\ subject.type = "margin") =>
        returned = IF C15_Triggers(subject.config, game_state, market_state)
                   THEN <<C15_Buy(subject.config, market_state)>>
                   ELSE <<>>
  /\ evaluate(ScoreMarginStrategy("test", [min_margin |-> 7, direction |-> "leading"]),
              live_game, open_market, <<>>)
       = <<[signal |-> "buy", ticker |-> open_market.ticker, side |-> "yes", size |-> 10,
            price |-> 66]>>
  /\ evaluate(ScoreMarginStrategy("test", [min_margin |-> 10, direction |-> "leading"]),
              live_game, open_market, <<>>) = <<>>
  /\ evaluate(ScoreMarginStrategy("test", [min_margin |-> 7, direction |-> "trailing"]),
              live_game, open_market, <<>>) = <<>>

C15_Witness ==
  /\ called = "evaluate"
  /\ subject.type = "margin"
  /\ DOMAIN subject.config = {"min_margin"}
  /\ Abs(margin(game_state)) = subject.config.min_margin
  /\ returned # <<>>
  /\ returned[1].size = DefaultSize
  /\ returned[1].price = market_state.yes_ask + DefaultOffset

NonFilter(children) == {i \in 1..Len(children) : children[i].type # "time"}

First(indices) == CHOOSE i \in indices : \A j \in indices : i <= j

ChildSignal(i) == evaluate(subject.strategies[i], game_state, market_state, held)

FiltersPass ==
  \A i \in 1..Len(subject.strategies) :
     subject.strategies[i].type = "time" => is_time_valid(subject.strategies[i], game_state)

(* C16: an AND composite returns None when a filter child's is_time_valid *)
(* is false or a non-filter child returns None; it returns a signal only  *)
(* when every filter child passes and every non-filter child signals, and *)
(* then the signal of the first non-filter child in child order; with no  *)
(* children, or no non-filter child, it returns None.                     *)
C16_CompositeAnd ==
  (called = "evaluate" /\ subject.type = "composite" /\ operator(subject) = "and") =>
     LET nf == NonFilter(subject.strategies)
     IN returned = IF /\ nf # {}
                      /\ FiltersPass
                      /\ \A i \in nf : ChildSignal(i) # <<>>
                   THEN ChildSignal(First(nf))
                   ELSE <<>>

C16_Witness ==
  /\ called = "evaluate"
  /\ subject.type = "composite"
  /\ operator(subject) = "and"
  /\ NonFilter(subject.strategies) = {1, 2}
  /\ returned # <<>>
  /\ returned = ChildSignal(1)
  /\ returned # ChildSignal(2)

WithoutFilters(self) ==
  [self EXCEPT !.strategies = SelectSeq(self.strategies, LAMBDA c : c.type # "time")]

(* C17: an OR composite returns the signal of the first non-filter child, *)
(* in child order, whose evaluate returns one, and None when none does;   *)
(* filter children neither veto nor contribute: the result is the same    *)
(* whatever their predicates evaluate to.                                 *)
C17_CompositeOr ==
  (called = "evaluate" /\ subject.type = "composite" /\ operator(subject) = "or") =>
     LET signalling == {i \in NonFilter(subject.strategies) : ChildSignal(i) # <<>>}
     IN /\ returned = IF signalling # {} THEN ChildSignal(First(signalling)) ELSE <<>>
        /\ returned = evaluate(WithoutFilters(subject), game_state, market_state, held)

C17_Witness ==
  /\ called = "evaluate"
  /\ subject.type = "composite"
  /\ operator(subject) = "or"
  /\ Len(subject.strategies) = 2
  /\ subject.strategies[1].type = "time"
  /\ ~is_time_valid(subject.strategies[1], game_state)
  /\ returned # <<>>
  /\ returned = ChildSignal(2)

C18_Valid(cfg, game) ==
  /\ game.status = "in"
  /\ game.period >= cfg.min_period
  /\ ("max_clock" \notin DOMAIN cfg \/ game.clock_seconds <= cfg.max_clock)

(* C18: the time-window filter's evaluate returns None for every input,   *)
(* and is_time_valid is true iff the game is live, period >= min_period   *)
(* and max_clock is absent or clock_seconds <= max_clock. Period 4 with   *)
(* min_period 4 is valid, period 1 is not; with max_clock 300, clock 120  *)
(* is valid and clock 400 is not.                                         *)
C18_TimeFilter ==
  /\ (called = "evaluate" /\ subject.type = "time") => returned = <<>>
  /\ called = "is_time_valid" => time_valid = C18_Valid(subject.config, game_state)
  /\ is_time_valid(GameTimeStrategy("test", [min_period |-> 4]), live_game)
  /\ ~is_time_valid(GameTimeStrategy("test", [min_period |-> 4]),
                    [live_game EXCEPT !.period = 1])
  /\ is_time_valid(GameTimeStrategy("test", [min_period |-> 4, max_clock |-> 300]),
                   [live_game EXCEPT !.clock_seconds = 120])
  /\ ~is_time_valid(GameTimeStrategy("test", [min_period |-> 4, max_clock |-> 300]),
                    [live_game EXCEPT !.clock_seconds = 400])

C18_Witness ==
  /\ called = "is_time_valid"
  /\ is_live(game_state)
  /\ game_state.period >= subject.config.min_period
  /\ "max_clock" \in DOMAIN subject.config
  /\ game_state.clock_seconds > subject.config.max_clock
  /\ ~time_valid

(* C19: for a game whose status is not 'in', evaluate returns None for    *)
(* the margin strategy, the time filter and every AND or OR composite at  *)
(* any nesting depth, whatever the market quote and the position.         *)
C19_NotLive ==
  (called = "evaluate" /\ game_state.status # "in") => returned = <<>>

C19_Witness ==
  /\ called = "evaluate"
  /\ game_state.status = "post"
  /\ held # <<>>
  /\ subject.type = "composite"
  /\ \E i \in 1..Len(subject.strategies) :
        /\ subject.strategies[i].type = "composite"
        /\ \E j \in 1..Len(subject.strategies[i].strategies) :
              subject.strategies[i].strategies[j].type = "composite"
  /\ evaluate(subject, [game_state EXCEPT !.status = "in"], market_state, held) # <<>>
  /\ returned = <<>>

(* --------------------------- backtester claims ------------------------- *)
WouldSignal(j, t) ==
  LET sig == evaluate(bt_strategies[j], snapshot_to_game_state(snapshots[t]),
                      create_simulated_market(snapshots[t]), <<>>)
  IN IF sig = <<>> THEN FALSE ELSE is_actionable(sig[1])

Signalled == {k \in 1..Len(evaluations) : evaluations[k].signalled}

SameRun(a, b) == a.strategy = b.strategy /\ a.event_id = b.event_id

UniqueName(j) ==
  \A i \in 1..Len(bt_strategies) : bt_strategies[i].name = bt_strategies[j].name => i = j

(* C20: for each strategy and each event a backtest run produces at most  *)
(* one signal and one simulated trade, at the earliest snapshot in time   *)
(* order that is live and at which the strategy returns an actionable     *)
(* signal; snapshots that are not live are never evaluated, and a         *)
(* strategy that has signalled for an event is not evaluated again on the *)
(* event's later snapshots.                                               *)
C20_FirstSignalWins ==
  /\ \A k \in 1..Len(evaluations) : is_live(snapshots[evaluations[k].timestamp])
  /\ \A k \in Signalled : \A l \in Signalled :
        SameRun(evaluations[k], evaluations[l]) => k = l
  /\ \A k \in Signalled : \A t \in 1..(evaluations[k].timestamp - 1) :
        (snapshots[t].event_id = evaluations[k].event_id /\ is_live(snapshots[t]))
           => ~WouldSignal(evaluations[k].strategy, t)
  /\ \A k \in Signalled : \A l \in 1..Len(evaluations) :
        SameRun(evaluations[k], evaluations[l]) => l <= k
  /\ \A k \in 1..Len(evaluations) :
        evaluations[k].signalled = WouldSignal(evaluations[k].strategy, evaluations[k].timestamp)
  /\ result.total_signals = Cardinality(Signalled)
  /\ result.total_trades = Cardinality(Signalled)
  /\ Len(result.trades) = Cardinality(Signalled)
  /\ \A i \in 1..Len(result.trades) :
        \E k \in Signalled :
           /\ Cardinality({l \in Signalled : l <= k}) = i
           /\ result.trades[i].timestamp = evaluations[k].timestamp
           /\ result.trades[i].event_id = evaluations[k].event_id
           /\ result.trades[i].strategy_name = bt_strategies[evaluations[k].strategy].name
  /\ bt = "done" =>
        \A j \in 1..Len(bt_strategies) : \A t \in 1..Len(snapshots) :
           (UniqueName(j) /\ is_live(snapshots[t]) /\ WouldSignal(j, t)) =>
              \E k \in Signalled :
                 /\ evaluations[k].strategy = j
                 /\ evaluations[k].event_id = snapshots[t].event_id

C20_Witness ==
  /\ bt = "done"
  /\ bt_strategies # <<>>
  /\ Len(snapshots) = MaxSnapshots
  /\ \A t \in 1..Len(snapshots) : snapshots[t].event_id = "e1" /\ is_live(snapshots[t])
  /\ ~WouldSignal(1, 1)
  /\ WouldSignal(1, 2)
  /\ WouldSignal(1, 3)
  /\ \E k \in Signalled : evaluations[k].strategy = 1 /\ evaluations[k].timestamp = 2
  /\ \A k \in 1..Len(evaluations) :
        evaluations[k].strategy = 1 => evaluations[k].timestamp <= 2
  /\ result.total_trades = 1

\* the call of evaluate that produced the i-th trade of the result
TradeCall(i) ==
  evaluations[CHOOSE k \in Signalled : Cardinality({l \in Signalled : l <= k}) = i]

TradeSignal(i) ==
  evaluate(bt_strategies[TradeCall(i).strategy],
           snapshot_to_game_state(snapshots[TradeCall(i).timestamp]),
           create_simulated_market(snapshots[TradeCall(i).timestamp]), <<>>)[1]

\* the last snapshot of the event in the time-ordered sequence
FinalSnapshot(event_id) ==
  snapshots[CHOOSE t \in 1..Len(snapshots) :
              /\ snapshots[t].event_id = event_id
              /\ \A u \in 1..Len(snapshots) : snapshots[u].event_id = event_id => u <= t]

Settled(trade, sig, entry_price) ==
  LET final == FinalSnapshot(trade.event_id)
      home_won == final.home_score > final.away_score
      won == IF sig.side = "yes" THEN home_won ELSE ~home_won
  IN /\ trade.entry_price = entry_price
     /\ trade.size = sig.size
     /\ won => /\ trade.outcome = "win"
               /\ trade.exit_price = 100
               /\ trade.pnl = (100 - entry_price) * sig.size
     /\ ~won => /\ trade.outcome = "loss"
                /\ trade.exit_price = 0
                /\ trade.pnl = (0 - entry_price) * sig.size

(* C21 as stated: a simulated trade is settled against the last snapshot  *)
(* of its event: YES wins iff home_score > away_score there, NO wins iff  *)
(* not; a win has exit price 100 and pnl (100 - entry_price) * size, a    *)
(* loss exit price 0 and pnl -entry_price * size, entry_price being the   *)
(* signal's price and size the signal's size.                             *)
C21_Settlement ==
  \A i \in 1..Len(result.trades) :
     Settled(result.trades[i], TradeSignal(i), TradeSignal(i).price)

C21_Witness ==
  /\ bt = "done"
  /\ \E i \in 1..Len(result.trades) :
        /\ TradeSignal(i).price = 0
        /\ result.trades[i].outcome = "win"
        /\ result.trades[i].pnl = 50 * TradeSignal(i).size

RECURSIVE SumPnl(_)
SumPnl(trades) == IF trades = <<>> THEN 0 ELSE Head(trades).pnl + SumPnl(Tail(trades))

SameRate(a, b) == a[1] * b[2] = b[1] * a[2]

(* C22: after any backtest run total_signals = total_trades = the number  *)
(* of trade records, winning_trades + losing_trades = total_trades,       *)
(* total_pnl is the sum of the trade records' pnl, and win_rate is        *)
(* winning_trades / total_trades, or 0 when total_trades = 0.             *)
C22_Aggregates ==
  /\ result.total_signals = result.total_trades
  /\ result.total_trades = Len(result.trades)
  /\ result.winning_trades + result.losing_trades = result.total_trades
  /\ result.winning_trades = Cardinality({i \in 1..Len(result.trades) :
                                            result.trades[i].outcome = "win"})
  /\ result.total_pnl = SumPnl(result.trades)
  /\ result.total_trades = 0 => SameRate(win_rate(result), <<0, 1>>)
  /\ result.total_trades # 0 =>
        SameRate(win_rate(result), <<result.winning_trades, result.total_trades>>)
  /\ SameRate(win_rate([BacktestResult EXCEPT !.total_trades = 10, !.winning_trades = 6,
                                               !.losing_trades = 4]), <<6, 10>>)

C22_Witness ==
  /\ bt = "done"
  /\ result.winning_trades > 0
  /\ result.losing_trades > 0
  /\ result.total_pnl # 0
  /\ Len(result.trades) = result.winning_trades + result.losing_trades

LeadingYes(s) ==
  /\ s.type = "margin"
  /\ CfgGet(s.config, "direction", "leading") = "leading"
  /\ CfgGet(s.config, "side", "yes") = "yes"

\* the event has a live snapshot with the home team ahead by min_margin or
\* more, and its final snapshot has the home team ahead
HomeWinAfterLead(s, event_id) ==
  /\ \E t \in 1..Len(snapshots) :
        /\ snapshots[t].event_id = event_id
        /\ snapshots[t].status = "in"
        /\ snapshots[t].home_score - snapshots[t].away_score >= s.config.min_margin
  /\ FinalSnapshot(event_id).home_score > FinalSnapshot(event_id).away_score

EventsOfRun == {snapshots[t].event_id : t \in 1..Len(snapshots)}

WinningTrades(j, event_id) ==
  {i \in 1..Len(result.trades) :
     /\ TradeCall(i).strategy = j
     /\ result.trades[i].event_id = event_id
     /\ result.trades[i].outcome = "win"}

(* C23 as stated: for an event with a live snapshot where the home team   *)
(* leads by at least min_margin and a final snapshot with the home team   *)
(* ahead, a leading/YES margin strategy yields at least one signal, the   *)
(* trade's outcome is 'win' and total P&L is nonzero.                     *)
C23_EndToEnd ==
  bt = "done" =>
     \A j \in 1..Len(bt_strategies) : \A e \in EventsOfRun :
        (LeadingYes(bt_strategies[j]) /\ HomeWinAfterLead(bt_strategies[j], e)) =>
           /\ result.total_signals >= 1
           /\ WinningTrades(j, e) # {}
           /\ result.total_pnl # 0

(* C23 amended: the same for a leading/YES margin strategy of positive    *)
(* size whose name no other strategy of the run shares: it yields at      *)
(* least one signal and its trade's outcome is 'win'; the trade's P&L is  *)
(* nonzero unless its entry price is 100, and so is total P&L when it is  *)
(* the run's only trade. The 5-snapshot event 7-7, 14-7, 21-7, 28-14      *)
(* (live), 31-21 (post) with min_margin 7, leading, size 10 does.         *)
C23_EndToEndSized ==
  bt = "done" =>
     /\ \A j \in 1..Len(bt_strategies) : \A e \in EventsOfRun :
           (/\ LeadingYes(bt_strategies[j])
            /\ CfgGet(bt_strategies[j].config, "size", DefaultSize) > 0
            /\ UniqueName(j)
            /\ HomeWinAfterLead(bt_strategies[j], e)) =>
              /\ result.total_signals >= 1
              /\ WinningTrades(j, e) # {}
              /\ \A i \in WinningTrades(j, e) :
                    result.trades[i].entry_price # 100 =>
                       /\ result.trades[i].pnl # 0
                       /\ Len(result.trades) = 1 => result.total_pnl # 0
     /\ snapshots = populated_db =>
           /\ result.total_signals >= 1
           /\ result.trades[1].outcome = "win"
           /\ result.total_pnl # 0

C23_Witness ==
  /\ bt = "done"
  /\ snapshots = populated_db
  /\ bt_strategies = <<sample_strategy>>
  /\ result.total_signals = 1
  /\ result.trades[1].timestamp = 2
  /\ result.trades[1].outcome = "win"
  /\ result.total_pnl = 270

(* C24: two backtest runs over the identical time-ordered snapshot        *)
(* sequence with the same strategy set produce identical BacktestResult   *)
(* values (counts, total P&L, trade records in the same order); no result *)
(* field depends on the wall clock.                                       *)
C24_Determinism ==
  (bt = "done" /\ previous # <<>>) => result = previous[1]

C24_Witness ==
  /\ bt = "done"
  /\ previous # <<>>
  /\ wall_clock > 0
  /\ Len(result.trades) > 1
  /\ result.trades[1].event_id # result.trades[2].event_id
  /\ result = previous[1]

(* C25: when no snapshot matches the date range and sport filter, run     *)
(* returns normally with a fully formed result whose total_signals,       *)
(* total_trades, winning_trades, losing_trades and total_pnl are 0 and    *)
(* whose trade list is empty.                                             *)
C25_EmptyRun ==
  snapshots = <<>> =>
     /\ bt \in {"init", "done"}
     /\ result.total_signals = 0
     /\ result.total_trades = 0
     /\ result.winning_trades = 0
     /\ result.losing_trades = 0
     /\ result.total_pnl = 0
     /\ result.trades = <<>>
     /\ bt = "done" => result.strategies = strategy_names(bt_strategies)

C25_Witness ==
  /\ snapshots = <<>>
  /\ bt_strategies # <<>>
  /\ bt = "done"
  /\ result.total_signals = 0
  /\ result.strategies # <<>>

(* -------------------- live engine and backtester ----------------------- *)
(* C26: for the same game state and market quote the live engine and the  *)
(* backtester call the same evaluate and act only on a result that is     *)
(* non-None and actionable: a pair that yields a signal in one yields the *)
(* same signal (kind, side, size, price) in the other, and one that       *)
(* yields None in one yields None in the other.                           *)
C26_SameSemantics ==
  called = "evaluate" =>
     LET live == engine_decision(subject, game_state, market_state, held)
         replayed == backtest_decision(subject, game_state, market_state)
     IN /\ live = replayed
        /\ live # <<>> => live = returned /\ is_actionable(returned[1])
        /\ live = <<>> => (returned = <<>> \/ ~is_actionable(returned[1]))

C26_Witness ==
  /\ called = "evaluate"
  /\ ~is_strategy_applicable(subject, game_state)
  /\ returned # <<>>
  /\ backtest_decision(subject, game_state, market_state) = returned
  /\ engine_decision(subject, game_state, market_state, held) = <<>>

(* ----------------------- live engine, continued ------------------------ *)
(* C27: after the shutdown signal has fired in the middle of a polling     *)
(* cycle, no further game is processed and no further order is submitted   *)
(* in that cycle.                                                          *)
C27_ShutdownStopsCycle ==
  [][shutdown_event => ~(GameNoMarket \/ GameMarket \/ OrderSubmit)]_vars

C27_Witness ==
  /\ shutdown_event
  /\ last = "stop"
  /\ pc = "position"
  /\ Len(games) > 0

C28_Fetched == pc = "position" /\ pc' # "position"

(* C28: a position fetch that fails is swallowed: the risk state is not    *)
(* changed by it, the strategies get position None, and the strategies of  *)
(* that game are evaluated next with the later games of the cycle still to *)
(* come; a fetch that succeeds and reports the ticker applies              *)
(* update_position before any strategy of that game is evaluated.          *)
C28_PositionRefresh ==
  [][C28_Fetched =>
       /\ pc' = "strategy"
       /\ idx' = 1
       /\ games' = games
       /\ UNCHANGED <<pending, orders, running, shutdown_event>>
       /\ last' = "position_raises" => state' = state /\ position' = <<>>
       /\ last' = "position_found" =>
            /\ position' # <<>>
            /\ position'[1].ticker = Market.ticker
            /\ state'.positions =
                 Put(state.positions, Market.ticker, position'[1].position)
            /\ state'.exposure =
                 Put(state.exposure, Market.ticker, position'[1].market_exposure)
            /\ state'.daily_pnl = state.daily_pnl
            /\ state'.trades = state.trades]_vars

C28_Witness ==
  /\ last = "position_raises"
  /\ pc = "strategy"
  /\ idx = 1
  /\ position = <<>>
  /\ Len(games) > 0

C28_WitnessFound ==
  /\ last = "position_found"
  /\ pc = "strategy"
  /\ idx = 1
  /\ position # <<>>
  /\ Get(state.positions, position[1].ticker) = position[1].position

C29_Unresolved ==
  /\ pc = "game"
  /\ games # <<>>
  /\ cache_key(Head(games)) \notin DOMAIN market_cache

(* C29: a live game for which no market is resolved is skipped: no         *)
(* position is fetched, no strategy is evaluated, no order is submitted,   *)
(* the risk state is unchanged, and the remaining games of the cycle are   *)
(* processed next.                                                         *)
C29_NoMarketSkipped ==
  /\ [][(C29_Unresolved /\ <<pc, games>>' # <<pc, games>>) =>
          /\ last' = "game_no_market"
          /\ pc' = "game"
          /\ games' = Tail(games)
          /\ UNCHANGED <<state, position, idx, pending, orders, market_cache>>]_vars
  /\ [][(last' = "game_no_market" /\ games' # games) => C29_Unresolved]_vars

C29_Witness ==
  /\ last = "game_no_market"
  /\ pc = "game"
  /\ Len(games) > 0
  /\ cache_key(Head(games)) \in DOMAIN market_cache
  /\ orders = <<>>

(* ------------------------------ score feed ----------------------------- *)
Queried == IF sport_idx = 0 THEN Sports ELSE {Sport[i] : i \in 1..(sport_idx - 1)}

HasLive(sport) ==
  \E i \in 1..Len(scoreboards[sport].games) : scoreboards[sport].games[i].status = "in"

RECURSIVE LiveOf(_)
LiveOf(gs) ==
  IF gs = <<>> THEN <<>>
  ELSE IF Head(gs).status = "in" THEN <<Head(gs)>> \o LiveOf(Tail(gs)) ELSE LiveOf(Tail(gs))

(* C30: the fetch of all live games queries each supported sport in turn;  *)
(* a feed error for one sport is swallowed and the others are still        *)
(* fetched: the result holds exactly the sports whose fetch succeeded and  *)
(* that have at least one live game, each mapped to its games with status  *)
(* 'in' and only those.                                                    *)
C30_PartialFailure ==
  /\ DOMAIN collected = {s \in Queried : scoreboards[s].ok /\ HasLive(s)}
  /\ \A s \in DOMAIN collected :
        /\ collected[s] = LiveOf(scoreboards[s].games)
        /\ \A i \in 1..Len(collected[s]) :
              collected[s][i].status = "in" /\ collected[s][i].sport = s

C30_Witness ==
  /\ last = "all_fetched"
  /\ ~scoreboards["nfl"].ok
  /\ scoreboards["nba"].ok
  /\ Len(scoreboards["nba"].games) = 2
  /\ DOMAIN collected = {"nba"}
  /\ Len(collected["nba"]) = 1
  /\ scoreboards["college-football"].ok
  /\ scoreboards["college-football"].games # <<>>

(* ----------------------- live engine, sport filter --------------------- *)
C31_Configs ==
  {[min_margin |-> 1], [min_margin |-> 1, targets |-> <<>>]}
  \cup {[targets |-> <<[sport |-> a]>>] : a \in {"nfl", "nba", "college-football"}}
  \cup {[targets |-> <<[sport |-> a], [sport |-> b]>>] :
          a \in {"nfl", "nba"}, b \in {"nba", "college-football"}}
  \cup {[targets |-> <<[name |-> "any"]>>]}

C31_Named(config) ==
  IF "targets" \in DOMAIN config
  THEN {config.targets[i].sport :
          i \in {j \in 1..Len(config.targets) : "sport" \in DOMAIN config.targets[j]}}
  ELSE {}

C31_Applies(config, game) ==
  \/ "targets" \notin DOMAIN config
  \/ config.targets = <<>>
  \/ game.sport \in C31_Named(config)

C31_StrategyStep == pc = "strategy" /\ idx <= Len(strategies) /\ <<pc, idx>>' # <<pc, idx>>

(* C31: in the live engine a strategy is evaluated for a game iff it has   *)
(* no sport filter or at least one of its targets names the game's sport;  *)
(* a strategy whose targets all name other sports is never evaluated for   *)
(* that game and never produces an order for it.                           *)
C31_Applicability ==
  [][/\ \A config \in C31_Configs : \A game \in Games :
          is_strategy_applicable([config |-> config], game) <=> C31_Applies(config, game)
     /\ C31_StrategyStep =>
          /\ last' = "strategy_skip" <=> ~C31_Applies(strategies[idx].config, Head(games))
          /\ ~C31_Applies(strategies[idx].config, Head(games)) =>
               /\ idx' = idx + 1
               /\ pc' = "strategy"
               /\ UNCHANGED <<state, pending, orders, games, position>>]_vars

C31_Witness ==
  /\ last = "strategy_skip"
  /\ pc = "strategy"
  /\ idx = 2
  /\ Head(games).sport = "nba"
  /\ is_strategy_applicable(strategies[idx], Head(games))
  /\ Len(strategies[idx].config.targets) = 2

C31_WitnessOrder ==
  /\ last = "order_submit"
  /\ idx = 2
  /\ Head(games).sport = "nba"
  /\ pending # <<>>

(* --------------------------- simulated quote --------------------------- *)
C32_Clamp(x) == IF x < 5 THEN 5 ELSE IF x > 95 THEN 95 ELSE x

C32_YesAsk(m) == C32_Clamp(IF m > 0 THEN 50 + 3 * m ELSE 50 - 3 * Abs(m))

(* C32: for every integer margin the simulated market is open with         *)
(* yes_ask = 50 + 3 per point of margin when the home team leads and       *)
(* 50 - 3 per point of abs(margin) otherwise, clamped to [5, 95], with     *)
(* yes_bid = yes_ask - 2, no_ask = 100 - yes_ask and                       *)
(* no_bid = 100 - yes_ask - 2; yes_ask + no_ask = 100 and yes_ask is       *)
(* non-decreasing in margin.                                               *)
C32_SimulatedQuote ==
  simulated # <<>> =>
     /\ simulated[1].status = "open"
     /\ simulated[1].yes_ask = C32_YesAsk(quoted_snapshot.margin)
     /\ simulated[1].yes_bid = simulated[1].yes_ask - 2
     /\ simulated[1].no_ask = 100 - simulated[1].yes_ask
     /\ simulated[1].no_bid = 100 - simulated[1].yes_ask - 2
     /\ simulated[1].yes_ask + simulated[1].no_ask = 100
     /\ \A other \in QuotedSnapshots :
           other.margin <= quoted_snapshot.margin =>
              create_simulated_market(other).yes_ask <= simulated[1].yes_ask

C32_Witness ==
  /\ simulated # <<>>
  /\ quoted_snapshot.margin = 14
  /\ simulated[1].yes_ask = 90
  /\ C32_YesAsk(quoted_snapshot.margin) = 92

(* ------------------------ live engine, daily loss ---------------------- *)
C33_Flat(s, now) == s.trade_date # now \/ s.daily_pnl = 0

(* C33: every record_trade call of the live engine passes realized P&L 0:  *)
(* the engine's own steps leave daily_pnl at 0 within a day,               *)
(* daily_loss_remaining stays max_daily_loss, and neither the cycle skip   *)
(* nor a can_trade rejection for the daily loss is triggered by them when  *)
(* max_daily_loss > 0.                                                     *)
C33_EngineKeepsPnl ==
  [][(~External /\ today' = today /\ C33_Flat(state, today)) =>
       /\ C33_Flat(state', today)
       /\ state'.trades # state.trades /\ state'.trades # <<>> => LastTrade(state').pnl = 0
       /\ daily_loss_remaining(state', today).ret = max_daily_loss
       /\ max_daily_loss > 0 =>
            /\ ~is_daily_limit_reached(state', today).ret
            /\ last' # "cycle_skip"
            /\ ~(reset_daily(state', today).daily_pnl <= 0 - max_daily_loss)]_vars

C33_Witness ==
  /\ last = "order_accepted"
  /\ ~dry_run
  /\ state.trade_date = today
  /\ state.trades # <<>>
  /\ LastTrade(state).pnl = 0
  /\ LastTrade(state).price > 0
  /\ state.daily_pnl = 0
  /\ daily_loss_remaining(state, today).ret = max_daily_loss

(* ------------------------ live engine, market cache -------------------- *)
(* C34: no step of the live engine writes its market cache and market      *)
(* resolution only reads it: with the cache as constructed (empty) every   *)
(* game is skipped for lack of a market, so no position is fetched, no     *)
(* strategy is evaluated, no order is submitted and record_trade is never  *)
(* called, in dry-run and in live mode alike.                              *)
C34_EmptyCache ==
  /\ [][market_cache' = market_cache]_vars
  /\ [](market_cache = <<>> =>
          /\ pc \notin {"position", "strategy", "order"}
          /\ position = <<>>
          /\ pending = <<>>
          /\ orders = <<>>
          /\ last \notin {"game_market", "position_found", "position_none", "position_raises",
                          "order_submit", "order_accepted"})
  /\ [][(market_cache = <<>> /\ ~External) =>
          /\ state'.positions = state.positions
          /\ state'.exposure = state.exposure
          /\ Len(state'.trades) <= Len(state.trades)
          /\ (pc = "game" /\ games # <<>> /\ <<pc, games>>' # <<pc, games>>) =>
               games' = Tail(games) /\ pc' = "game" /\ last' = "game_no_market"]_vars

C34_Witness ==
  /\ market_cache = <<>>
  /\ ~dry_run
  /\ last = "game_no_market"
  /\ games = <<>>
  /\ pc = "game"
  /\ today > 0

(* ------------------- risk manager, gate then adjustment ---------------- *)
C35_Signals == Actionable

C35_Tracked(sig) == Get(reset_daily(state, today).positions, sig.ticker)

(* C35: after can_trade has returned true for a signal on a ticker whose   *)
(* tracked position is >= 0, adjust_signal returns the signal with its     *)
(* size unchanged; the size reduction and the engine's stop on an adjusted *)
(* size of 0 occur only when the tracked position is negative.             *)
C35_AdjustAfterGate ==
  \A sig \in C35_Signals :
     can_trade(state, today, sig).ret =>
        /\ C35_Tracked(sig) >= 0 =>
              adjust_signal(can_trade(state, today, sig).state, sig) = sig
        /\ adjust_signal(can_trade(state, today, sig).state, sig).size # sig.size =>
              C35_Tracked(sig) < 0
        /\ handle_signal(state, today, sig, dry_run).outcome = "zero" => C35_Tracked(sig) < 0

C35_Witness ==
  /\ last = "gated_trade"
  /\ \E sig \in C35_Signals :
        /\ can_trade(state, today, sig).ret
        /\ C35_Tracked(sig) > 0
        /\ adjust_signal(state, sig).size = sig.size

C35_WitnessReduced ==
  \E sig \in C35_Signals :
     /\ can_trade(state, today, sig).ret
     /\ C35_Tracked(sig) < 0
     /\ handle_signal(state, today, sig, FALSE).outcome = "zero"

(* ---------------------- risk manager, daily ledger --------------------- *)
C36_Kept == IF state'.trade_date = state.trade_date THEN state.trades ELSE <<>>

C36_Recorded ==
  \/ \E sig \in DirectSignals : RecordTrade(sig, MaxPrice, 0 - MaxPnl)
  \/ \E sig \in GatedSignals : GatedTrade(sig, PriceOrZero(sig.price), 0)

C37_RaisedInCycle == FetchRaises \/ StrategyRaises

C37_RaisedInCall == OrderRaises \/ \E reply \in PositionReplies : PositionRaises(reply)

C37_LoopGoesOn ==
  /\ [][(C37_RaisedInCycle \/ C37_RaisedInCall) =>
          pc' # "done" /\ UNCHANGED <<running, shutdown_event>>]_vars
  /\ [][(pc = "wait" /\ ~shutdown_event /\ pc' # pc) =>
          pc' = "loop" /\ last' = "wait_timeout" /\ running']_vars
  /\ [][(pc = "loop" /\ running /\ pc' # pc) => pc' = "cycle"]_vars

(* C37: an exception raised anywhere inside a polling cycle never          *)
(* terminates the run loop: it is caught at the cycle boundary, the rest   *)
(* of that cycle is abandoned, and while no shutdown has been requested    *)
(* the loop starts the next cycle after the poll interval.                 *)
C37_CaughtAtCycleBoundary ==
  /\ C37_LoopGoesOn
  /\ [][(C37_RaisedInCycle \/ C37_RaisedInCall) =>
          pc' = "wait" /\ UNCHANGED <<state, orders>>]_vars

(* C37, amended: an exception of the feed fetch or of a strategy's         *)
(* evaluation is caught at the cycle boundary and the rest of the cycle is *)
(* abandoned; one of the position fetch or of building or submitting an    *)
(* order is caught where it is raised and the cycle goes on with the same  *)
(* game; none terminates the run loop, and while no shutdown has been      *)
(* requested the loop starts the next cycle after the poll interval.       *)
C37_CaughtWhereHandled ==
  /\ C37_LoopGoesOn
  /\ [][C37_RaisedInCycle => pc' = "wait" /\ UNCHANGED <<state, orders>>]_vars
  /\ [][C37_RaisedInCall =>
          pc' = "strategy" /\ UNCHANGED <<state, orders, games>>]_vars
  /\ ((pc = "wait" /\ ~shutdown_event) ~> (pc = "cycle" \/ shutdown_event))

C37_Witness ==
  /\ last = "strategy_raises"
  /\ pc = "wait"
  /\ games # <<>>
  /\ running
  /\ ~shutdown_event

C37_WitnessCall ==
  /\ last = "order_raises"
  /\ pc = "strategy"
  /\ running
  /\ ~shutdown_event

(* --------------------------- order placement --------------------------- *)
C38_InRange(p) == p >= 1 /\ p <= 99

C38_SidePrice(order) == IF order.side = "yes" THEN order.yes_price ELSE order.no_price

C38_OtherPrice(order) == IF order.side = "yes" THEN order.no_price ELSE order.yes_price

C38_WellFormed(order) ==
  /\ order.count >= 1
  /\ C38_OtherPrice(order) = NoPrice
  /\ C38_SidePrice(order) # NoPrice => C38_InRange(C38_SidePrice(order))
  /\ order.type = "limit" => C38_InRange(C38_SidePrice(order))

C38_Submitted ==
  {orders[i] : i \in 1..Len(orders)} \cup {pending[i].order : i \in 1..Len(pending)}

C38_OutOfRange == traded[1].price # NoPrice /\ ~C38_InRange(traded[1].price)

(* C38: every order submitted upstream has count >= 1 and, when it        *)
(* carries a limit price, a price between 1 and 99 cents on the signal's  *)
(* side only; a signal whose price lies outside 1..99 fails at order      *)
(* construction, so no order is submitted and record_trade is not called  *)
(* for it.                                                                *)
C38_OrdersInRange ==
  /\ [](\A order \in C38_Submitted :
          /\ C38_WellFormed(order)
          /\ order.side = traded[1].side
          /\ C38_SidePrice(order) = traded[1].price)
  /\ [](C38_OutOfRange => pending = <<>> /\ orders = <<>> /\ state = RiskState)
  /\ [][(pc = "execute" /\ C38_OutOfRange) =>
          pc' = "strategy" /\ last' = "order_invalid"]_vars

C38_Witness ==
  /\ last = "order_invalid"
  /\ traded[1].price = 100
  /\ orders = <<>>
  /\ state.trades = <<>>

C38_WitnessPlaced ==
  /\ last = "order_accepted"
  /\ Len(orders) = 1
  /\ orders[1].type = "limit"
  /\ orders[1].no_price = 99
  /\ orders[1].yes_price = NoPrice
  /\ Len(state.trades) = 1

====
